---------------------------- MODULE Spec2Model ----------------------------
(***************************************************************************)
(* unocss-language-server: the workspace context resolver (ContextManager, *)
(* src/unnamed/part_001), the match cache (cache.ts, second half of        *)
(* src/src/service.ts) and the request handlers of src/src/server.ts that  *)
(* use both.                                                               *)
(*                                                                         *)
(* The program is single-threaded JavaScript: the code between two awaits  *)
(* runs atomically, and every await is a point where another handler may   *)
(* run.  Each action below is one such segment.                            *)
(***************************************************************************)
EXTENDS Integers, Sequences, FiniteSets, TLC

\* ------------------------------------------------------------------ bounds
\* operations (requests) started after construction, over one behaviour
MaxOps == 2
\* handlers that may be in progress at the same time
MaxProcs == 3
\* requests and notifications the server receives, over one behaviour
MaxServerOps == 3
\* calls of the match cache's functions, over one behaviour
MaxCacheOps == 3
\* symbols in a scanned text
MaxText == 6
\* entries in a generator's transformer list
MaxHooks == 3
\* resolveConfig calls of the single-generator service
MaxResolves == 2
\* reference requests, document and file events, over one behaviour
MaxRefOps == 2

\* ------------------------------------------------------------- map values
\* Map.get(k) of a key the map does not hold (JavaScript undefined)
NoEntry == 0 - 2
\* the "definitively absent" marker stored in contextsMap
Null == 0 - 1
\* an undefined stored as a value (fileContextCache.set(file, undefined))
Undefined == 0
\* a rejected promise (the awaited call threw)
Error == 0 - 3
\* the nothing a completed reload() returns
Void == 0 - 4

\* ------------------------------------------------------------------ paths
\* A path is the sequence of its components; <<>> is the filesystem root "/".
FsRoot == << >>
Cwd == <<"w">>
AppDir == <<"w", "app">>
SrcDir == <<"w", "app", "src">>
DepsDir == <<"w", "node_modules">>
\* a directory outside the workspace
OutDir == <<"o">>
Dirs == {FsRoot, Cwd, AppDir, SrcDir, DepsDir, OutDir}
RootFile == <<"w", "i.html">>
AppFile == <<"w", "app", "i.html">>
SrcFile == <<"w", "app", "src", "i.html">>
DepsFile == <<"w", "node_modules", "i.html">>
Files == {RootFile, AppFile, SrcFile, DepsFile}
\* a file outside the workspace, and every path a call may be made for
OutFile == <<"o", "i.html">>
Paths == Files \cup {OutFile}
\* document texts
Contents == {"c1", "c2"}
\* configExistsCache values that are not directories
NoProbe == <<"?">>
FalseProbe == <<"!">>

\* path.dirname
Dirname(p) == IF Len(p) = 0 THEN p ELSE SubSeq(p, 1, Len(p) - 1)

\* number of characters of a component
StrLen(s) ==
    CASE s = "w" -> 1
      [] s = "o" -> 1
      [] s = "app" -> 3
      [] s = "src" -> 3
      [] s = "i.html" -> 6
      [] s = "node_modules" -> 12
      [] OTHER -> 4

\* String.length of the path "/c1/c2/.../cn"
RECURSIVE PathLen(_)
PathLen(p) == IF Len(p) = 0 THEN 1
              ELSE IF Len(p) = 1 THEN 1 + StrLen(p[1])
              ELSE PathLen(Dirname(p)) + 1 + StrLen(p[Len(p)])

\* utils.isSubdir(parent, child): child lies strictly below parent
IsSubdir(parent, child) ==
    /\ Len(child) > Len(parent)
    /\ SubSeq(child, 1, Len(parent)) = parent

\* an exclusion pattern without node_modules
ExcludedNames_NoNodeModules == {"dist", ".temp", ".cache"}

\* excludeFileRE: some directory component is node_modules, dist, .temp, .cache
ExcludedNames == {"node_modules", "dist", ".temp", ".cache"}
ExcludeFileRE(file) == \E i \in 1..(Len(file) - 1) : file[i] \in ExcludedNames

\* ------------------------------------------------------------- filesystem
\* What a directory holds:
\*   "none": no file matching unoConfigRE or frameworkConfigRE
\*   "uno" : a configuration the Config Loader finds (uno.config.*, or a
\*           framework config that sets up UnoCSS)
\*   "fw"  : a framework config (vite.config.* ...) that does not set up
\*           UnoCSS: the probe sees a configuration file, the loader finds
\*           no configuration
\*   "bad" : a configuration file the loader fails on (throws)
\*   "denied": a directory whose listing fails (readdir throws)
Kinds == {"none", "uno", "fw", "bad", "denied"}
\* the directory outside the workspace holds a configuration in every layout
Layout(w, a, s) == [d \in Dirs |->
    IF d = Cwd THEN w ELSE IF d = AppDir THEN a ELSE IF d = SrcDir THEN s
    ELSE IF d = OutDir THEN "uno" ELSE "none"]
\* The layouts are those in which the Config Loader's answer for a directory is
\* the same whether or not it also looks into the directories above it: a
\* directory that is loaded and holds no configuration of its own has no
\* ancestor that holds one.
Layouts == { Layout("uno", "uno", "none"),
             Layout("none", "fw", "none"),
             Layout("none", "none", "uno"),
             Layout("none", "none", "none"),
             Layout("uno", "bad", "none"),
             Layout("uno", "none", "denied") }

VARIABLES
    fsKind,              \* the filesystem (fixed over a behaviour)
    opLimit,             \* operations a behaviour may start (fixed over a behaviour)
    contextsMap,         \* dir -> NoEntry | Null | Context id
    fileContextCache,    \* file -> NoEntry | Undefined | Context id
    configExistsCache,   \* dir -> NoProbe | FalseProbe | dir
    loadingContexts,     \* dir -> 0 | load id (the pending promise)
    autocompleteMatchType, \* the stored autocomplete match type
    configSources,       \* sequence of the directories whose sources were recorded
    loads,               \* load id -> one loadContext() call; a Context is named by its
                         \* load.  History fields: gen, the reload() count when the
                         \* load started; made, that count when its Context was built
    procs,               \* slot -> the handler running there
    nOps,                \* operations started so far
    cache,               \* match cache: key -> 0 | scan id (the promise of the positions)
    scans,               \* scan id -> one getMatchedPositionsFromCode() call
    docText,             \* open document -> its current text
    disk,                \* workspace file -> its content on disk
    generation,          \* history: reload() calls so far
    installer,           \* history: dir -> the load that last wrote contextsMap[dir]
    writerGen,           \* history: file -> generation in which the call that wrote
                         \*          fileContextCache[file] started
    created,             \* history: dir -> Contexts created for dir since the last reload()
    tainted,             \* history: dir -> a reload() ran after a load of dir was started
    completed,           \* history: file -> the outcome of the latest completed
                         \*          resolveClosestContext call for the file since the
                         \*          last reload() (NoEntry: none)
    last,                \* history: the most recently completed ContextManager call
    evicted,             \* history: key -> clearDocumentCache ran and no lookup since
    lastGet,             \* history: the most recent getMatchedPositionsFromDoc call
    forcedAt,            \* history: key -> the number of scans started before the most
                         \*          recent force call for the key (-1: never forced)
    matcher,             \* one getMatchedPositionsFromCode call: the text, the
                         \* generator's transformers and the positions returned
    service              \* the module state of the single-generator service: the shared
                         \* generator's configuration, the autocomplete engine and the
                         \* resolveConfig calls made so far

ctxHist == <<generation, installer, created, tainted>>
cacheVars == <<cache, scans, evicted, lastGet, forcedAt>>
fixedVars == <<fsKind, opLimit>>

vars == <<fsKind, opLimit, autocompleteMatchType, contextsMap, fileContextCache, configExistsCache,
          loadingContexts, configSources, loads, procs, nOps, cache, scans, docText, disk,
          generation, installer, writerGen, created, tainted, completed, last, evicted,
          lastGet, forcedAt, matcher, service>>

Slots == 1..MaxProcs

IdleProc == [kind |-> "idle", pc |-> "idle", file |-> FsRoot, content |-> "",
             resolved |-> 0, dir |-> FsRoot, searched |-> << >>, found |-> NoProbe,
             ldir |-> FsRoot, load |-> 0, owner |-> FALSE, val |-> NoEntry,
             scan |-> 0, gen |-> 0, ops |-> 0 - 1, prev |-> NoEntry, io |-> FALSE,
             allowDefault |-> FALSE, id |-> FsRoot, code |-> "", ctx |-> 0,
             paths |-> << >>, openDoc |-> FALSE]

NoLast == [op |-> "none", file |-> FsRoot, ret |-> Void, gen |-> 0, alone |-> FALSE,
           prev |-> NoEntry, io |-> FALSE]

\* ----------------------------------------------------------- pure helpers
\* a load promise whose callers are resumed only while the In-flight Load table
\* still holds the load
Settled_WhileListed(l) ==
    loads[l].pc = "done" /\ loadingContexts[loads[l].dir] = l

\* the pending/settled state of the promise of load l
Settled(l) == loads[l].pc = "done"

\* a load promise that fulfils with the absent result when the Config Loader threw
LoadResult_FailureAsAbsent(l) == IF loads[l].result = Error THEN Null ELSE loads[l].result

\* the value a settled load promise carries
LoadResult(l) == loads[l].result

\* the configDir of Context c
ConfigDir(c) == loads[c].dir

\* Set of the elements of a sequence
Range(s) == {s[i] : i \in 1..Len(s)}

\* a cacheSearchPath that memoizes the start directory only
CacheSearchPath_StartOnly(probes, dirs, result) ==
    [d \in Dirs |-> IF dirs # << >> /\ d = dirs[1] THEN result ELSE probes[d]]

\* a cacheSearchPath that memoizes "no configuration" for the directories below
\* the last one searched
CacheSearchPath_FalseBelow(probes, dirs, result) ==
    [d \in Dirs |-> IF dirs # << >> /\ d = dirs[Len(dirs)] THEN result
                    ELSE IF d \in Range(dirs) THEN FalseProbe ELSE probes[d]]

\* cacheSearchPath(dirs, result)
CacheSearchPath(probes, dirs, result) ==
    [d \in Dirs |-> IF d \in Range(dirs) THEN result ELSE probes[d]]

\* a hasConfigFiles that takes a failed listing for a hit
HasConfigFiles_FailureIsHit(dir) == fsKind[dir] # "none"

\* hasConfigFiles(dir): readdir(dir) returned and some entry matches unoConfigRE
\* or frameworkConfigRE; false when readdir threw
HasConfigFiles(dir) ==
    IF fsKind[dir] = "denied" THEN FALSE ELSE fsKind[dir] # "none"

\* a walk whose loop has no exit at the top: it goes on listing the last
\* directory it reached
WalkEnter_NeverLeaves(probes, dir, searched) ==
    IF dir = FsRoot \/ ~(dir = Cwd \/ IsSubdir(Cwd, dir))
    THEN [pc |-> "readdir", dir |-> dir, searched |-> searched,
          found |-> NoProbe, probes |-> probes]
    ELSE LET s2 == Append(searched, dir) IN
         IF probes[dir] # NoProbe
         THEN [pc |-> "walked", dir |-> FsRoot, searched |-> << >>,
               found |-> probes[dir],
               probes |-> CacheSearchPath(probes, s2, probes[dir])]
         ELSE [pc |-> "readdir", dir |-> dir, searched |-> s2,
               found |-> NoProbe, probes |-> probes]

\* a walk that stops at the filesystem root only
WalkEnter_NoBoundary(probes, dir, searched) ==
    IF dir # FsRoot
    THEN LET s2 == Append(searched, dir) IN
         IF probes[dir] # NoProbe
         THEN [pc |-> "walked", dir |-> FsRoot, searched |-> << >>,
               found |-> probes[dir],
               probes |-> CacheSearchPath(probes, s2, probes[dir])]
         ELSE [pc |-> "readdir", dir |-> dir, searched |-> s2,
               found |-> NoProbe, probes |-> probes]
    ELSE [pc |-> "walked", dir |-> FsRoot, searched |-> << >>,
          found |-> FalseProbe,
          probes |-> CacheSearchPath(probes, searched, FalseProbe)]

\* One evaluation of the while condition of findConfigDirectory for `dir` and the
\* loop body up to its await: the walk either returns (pc "walked") or is left
\* awaiting readdir(dir) (pc "readdir").
WalkEnter(probes, dir, searched) ==
    IF dir # FsRoot /\ (dir = Cwd \/ IsSubdir(Cwd, dir))
    THEN LET s2 == Append(searched, dir) IN
         IF probes[dir] # NoProbe
         THEN [pc |-> "walked", dir |-> FsRoot, searched |-> << >>,
               found |-> probes[dir],
               probes |-> CacheSearchPath(probes, s2, probes[dir])]
         ELSE [pc |-> "readdir", dir |-> dir, searched |-> s2,
               found |-> NoProbe, probes |-> probes]
    ELSE [pc |-> "walked", dir |-> FsRoot, searched |-> << >>,
          found |-> FalseProbe,
          probes |-> CacheSearchPath(probes, searched, FalseProbe)]

\* findConfigDirectory(startDir) up to its first await (or its return)
FindConfigDirectory(probes, startDir) ==
    IF probes[startDir] # NoProbe
    THEN [pc |-> "walked", dir |-> FsRoot, searched |-> << >>,
          found |-> probes[startDir], probes |-> probes]
    ELSE WalkEnter(probes, startDir, << >>)

\* The scan of the loaded Contexts in resolveClosestContext: the entries sorted by
\* descending key length, the first non-null one whose configDir is the file or
\* lies above it.  0 when there is none.
ScanContexts(cm, file) ==
    LET cands == {d \in Dirs : cm[d] >= 1 /\ (file = d \/ IsSubdir(d, file))} IN
    IF cands = {} THEN 0
    ELSE cm[CHOOSE d \in cands : \A e \in cands : PathLen(e) <= PathLen(d)]

\* loadContextInDirectory without the In-flight Load lookup: every call that finds
\* nothing cached starts a load of its own
LoadContextInDirectory_NoCoalescing(cm, lc, dir) ==
    IF cm[dir] # NoEntry THEN [how |-> "cached", val |-> cm[dir], load |-> 0]
    ELSE [how |-> "start", val |-> NoEntry, load |-> Len(loads) + 1]

\* loadContextInDirectory that takes the absent marker for a missing entry
LoadContextInDirectory_IgnoresAbsent(cm, lc, dir) ==
    IF cm[dir] >= 1 THEN [how |-> "cached", val |-> cm[dir], load |-> 0]
    ELSE IF lc[dir] # 0 THEN [how |-> "attach", val |-> NoEntry, load |-> lc[dir]]
    ELSE [how |-> "start", val |-> NoEntry, load |-> Len(loads) + 1]

\* loadContextInDirectory(dir) up to its await: the cached entry, the pending load
\* it attaches to, or a new load
LoadContextInDirectory(cm, lc, dir) ==
    IF cm[dir] # NoEntry THEN [how |-> "cached", val |-> cm[dir], load |-> 0]
    ELSE IF lc[dir] # 0 THEN [how |-> "attach", val |-> NoEntry, load |-> lc[dir]]
    ELSE [how |-> "start", val |-> NoEntry, load |-> Len(loads) + 1]

\* AutoCompleteMatchType
MatchTypes == {"prefix", "fuzzy"}

\* An autocomplete engine: the match type it was created with and the call that
\* created it.  NoAutocomplete: the Context is not built yet.
NoAutocomplete == [matchType |-> "", by |-> ""]
CreateAutocomplete(matchType, by) == [matchType |-> matchType, by |-> by]

\* one generator for the whole server
CreateGenerator_Singleton(l) == 1

\* createGenerator({}, defaultConfig) in load l: a new generator, named by the
\* load that created it; its configuration is kept in the unoConfig field of the
\* load record of that name
CreateGenerator(l) == l

\* result.config of loadConfig(dir): a directory's configuration defines one
\* shortcut of its own, named by the directory; no configuration, no shortcut
LoadedConfig(dir) == IF fsKind[dir] = "uno" THEN {dir} ELSE {}

\* whether generating `shortcut` with generator g yields CSS
Generates(g, shortcut) == shortcut \in loads[g].unoConfig

\* the loadContext(dir, allowDefault) call a new load starts with: the Config
\* Loader is invoked and awaited
NewLoad(dir, allowDefault, gen) ==
    [dir |-> dir, allowDefault |-> allowDefault, pc |-> "config",
     result |-> NoEntry, generator |-> 0, unoConfig |-> {},
     autocomplete |-> NoAutocomplete, gen |-> gen, made |-> 0 - 1]

\* the handler state after calling loadContextInDirectory(dir, allowDefault)
CallLoad(pr, r, dir) ==
    [pr EXCEPT !.pc = IF r.how = "cached" THEN "loaded" ELSE "awaitLoad",
               !.ldir = dir, !.load = r.load, !.owner = (r.how = "start"),
               !.val = r.val, !.dir = FsRoot, !.searched = << >>,
               !.found = NoProbe]

\* The handlers in progress fill the first slots, in the order they started: with
\* slot p now holding `rec`, the slots left idle move behind the others.
Put(p, rec) ==
    LET f == [procs EXCEPT ![p] = rec]
        live == {i \in Slots : f[i].kind # "idle"}
        nth(s) == CHOOSE i \in live : Cardinality({j \in live : j <= i}) = s
    IN [s \in Slots |-> IF s <= Cardinality(live) THEN f[nth(s)] ELSE IdleProc]

\* the lowest free slot takes the next operation
FreeSlot(p) ==
    /\ procs[p].kind = "idle"
    /\ \A q \in Slots : q < p => procs[q].kind # "idle"
    /\ nOps < opLimit

\* ------------------------------------------------------------ match cache
Modes == {"default", "strict"}
Keys == Modes \X Files
OpenDocs == {RootFile}
\* generator handles the cache functions are called with directly
Generators == {1}

\* getCacheKey(id, strictAnnotationMatch): `${mode}:${id}`.  The two mode words
\* differ in their first character, so the string is the pair, one to one.
GetCacheKey(id, strict) == <<IF strict THEN "strict" ELSE "default", id>>

\* clearDocumentCache that forgets the strict-mode entry
ClearDocumentCache_DefaultOnly(c, id) ==
    [k \in Keys |-> IF k = GetCacheKey(id, FALSE) THEN 0 ELSE c[k]]

\* clearDocumentCache that empties the whole cache
ClearDocumentCache_ClearsAll(c, id) == [k \in Keys |-> 0]

\* clearDocumentCache(id)
ClearDocumentCache(c, id) ==
    [k \in Keys |-> IF k = GetCacheKey(id, FALSE) \/ k = GetCacheKey(id, TRUE)
                    THEN 0 ELSE c[k]]

\* clearAllCache()
ClearAllCache(c) == [k \in Keys |-> 0]

\* the getMatchedPositionsFromCode(uno, code, id, options) call of a cache miss;
\* the options are the IDE include/exclude patterns when strict, none otherwise
NewScan(uno, code, id, strict) ==
    [uno |-> uno, code |-> code, id |-> id, strict |-> strict, status |-> "pending"]

\* getMatchedPositionsFromDoc that keeps an entry only while the content is the
\* content it was computed from
GetMatchedPositionsFromDoc_ComparesContent(c, sc, uno, code, id, strict, force) ==
    LET cacheKey == GetCacheKey(id, strict)
        c1 == IF force THEN [c EXCEPT ![cacheKey] = 0] ELSE c
    IN IF c1[cacheKey] # 0 /\ sc[c1[cacheKey]].code = code
       THEN [cache |-> c1, scans |-> sc, ret |-> c1[cacheKey], scanned |-> FALSE]
       ELSE [cache |-> [c1 EXCEPT ![cacheKey] = Len(sc) + 1],
             scans |-> Append(sc, NewScan(uno, code, id, strict)),
             ret |-> Len(sc) + 1, scanned |-> TRUE]

\* getMatchedPositionsFromDoc that does not evict on force
GetMatchedPositionsFromDoc_IgnoresForce(c, sc, uno, code, id, strict, force) ==
    LET cacheKey == GetCacheKey(id, strict)
    IN IF c[cacheKey] # 0
       THEN [cache |-> c, scans |-> sc, ret |-> c[cacheKey], scanned |-> FALSE]
       ELSE [cache |-> [c EXCEPT ![cacheKey] = Len(sc) + 1],
             scans |-> Append(sc, NewScan(uno, code, id, strict)),
             ret |-> Len(sc) + 1, scanned |-> TRUE]

\* getMatchedPositionsFromDoc that shares an entry only once its scan has finished
GetMatchedPositionsFromDoc_RescansPending(c, sc, uno, code, id, strict, force) ==
    LET cacheKey == GetCacheKey(id, strict)
        c1 == IF force THEN [c EXCEPT ![cacheKey] = 0] ELSE c
    IN IF c1[cacheKey] # 0 /\ sc[c1[cacheKey]].status # "pending"
       THEN [cache |-> c1, scans |-> sc, ret |-> c1[cacheKey], scanned |-> FALSE]
       ELSE [cache |-> [c1 EXCEPT ![cacheKey] = Len(sc) + 1],
             scans |-> Append(sc, NewScan(uno, code, id, strict)),
             ret |-> Len(sc) + 1, scanned |-> TRUE]

\* getMatchedPositionsFromDoc(uno, code, id, strictAnnotationMatch, force): the
\* cache and the scans after the call, the promise returned, whether it scanned
GetMatchedPositionsFromDoc(c, sc, uno, code, id, strict, force) ==
    LET cacheKey == GetCacheKey(id, strict)
        c1 == IF force THEN [c EXCEPT ![cacheKey] = 0] ELSE c
    IN IF c1[cacheKey] # 0
       THEN [cache |-> c1, scans |-> sc, ret |-> c1[cacheKey], scanned |-> FALSE]
       ELSE [cache |-> [c1 EXCEPT ![cacheKey] = Len(sc) + 1],
             scans |-> Append(sc, NewScan(uno, code, id, strict)),
             ret |-> Len(sc) + 1, scanned |-> TRUE]

NoGet == [by |-> "none", key |-> GetCacheKey(RootFile, FALSE), code |-> "",
          force |-> FALSE, pre |-> 0, ret |-> 0, scanned |-> FALSE,
          wasEvicted |-> FALSE, preStatus |-> "none"]

\* a call of getMatchedPositionsFromDoc by `by`, with its record in the history
CallGet(by, uno, code, id, strict, force) ==
    LET g == GetMatchedPositionsFromDoc(cache, scans, uno, code, id, strict, force)
        k == GetCacheKey(id, strict)
    IN /\ cache' = g.cache
       /\ scans' = g.scans
       /\ evicted' = [evicted EXCEPT ![k] = FALSE]
       /\ lastGet' = [by |-> by, key |-> k, code |-> code, force |-> force,
                      pre |-> cache[k], ret |-> g.ret, scanned |-> g.scanned,
                      wasEvicted |-> evicted[k],
                      preStatus |-> IF cache[k] = 0 THEN "none"
                                    ELSE scans[cache[k]].status]
       /\ forcedAt' = IF force THEN [forcedAt EXCEPT ![k] = Len(scans)] ELSE forcedAt

\* a call of clearDocumentCache(id)
CallClearDocument(id) ==
    /\ cache' = ClearDocumentCache(cache, id)
    /\ evicted' = [k \in Keys |-> evicted[k] \/ k[2] = id]
    /\ UNCHANGED <<scans, lastGet, forcedAt>>

ctxVars == <<contextsMap, fileContextCache, configExistsCache, loadingContexts,
             configSources, loads, writerGen, completed, generation, installer, created,
             tainted, last>>

\* The cache functions called directly, as the tests do.
CacheGet(uno, code, id, strict, force) ==
    /\ nOps < opLimit
    /\ nOps' = nOps + 1
    /\ CallGet("api", uno, code, id, strict, force)
    /\ UNCHANGED <<fixedVars, matcher, service, autocompleteMatchType, ctxVars, procs, docText, disk>>

CacheClearDocument(id) ==
    /\ nOps < opLimit
    /\ nOps' = nOps + 1
    /\ CallClearDocument(id)
    /\ UNCHANGED <<fixedVars, matcher, service, autocompleteMatchType, ctxVars, procs, docText, disk>>

CacheClearAll ==
    /\ nOps < opLimit
    /\ nOps' = nOps + 1
    /\ cache' = ClearAllCache(cache)
    /\ UNCHANGED <<fixedVars, matcher, service, autocompleteMatchType, ctxVars, procs, docText, disk, scans, evicted, lastGet, forcedAt>>

\* a cache that stores the positions when they arrive instead of their promise
ScanSettles_StoresOnArrival(s) ==
    /\ scans[s].status = "pending"
    /\ scans' = [scans EXCEPT ![s].status = "done"]
    /\ cache' = [cache EXCEPT ![GetCacheKey(scans[s].id, scans[s].strict)] = s]
    /\ UNCHANGED <<fixedVars, matcher, service, autocompleteMatchType, ctxVars, procs, docText, disk, nOps, evicted, lastGet, forcedAt>>

\* the promise of a scan resolves
ScanSettles(s) ==
    /\ scans[s].status = "pending"
    /\ scans' = [scans EXCEPT ![s].status = "done"]
    /\ UNCHANGED <<fixedVars, matcher, service, autocompleteMatchType, ctxVars, procs, docText, disk, nOps, cache, evicted, lastGet,
                   forcedAt>>

\* a cache that drops the entry of a scan when the scan fails
ScanRejects_Evicts(s) ==
    /\ scans[s].status = "pending"
    /\ scans' = [scans EXCEPT ![s].status = "failed"]
    /\ cache' = [k \in Keys |-> IF cache[k] = s THEN 0 ELSE cache[k]]
    /\ UNCHANGED <<fixedVars, matcher, service, autocompleteMatchType, ctxVars, procs, docText, disk, nOps, evicted, lastGet,
                   forcedAt>>

\* the promise of a scan rejects: the map holds the promise itself and nothing
\* in cache.ts observes the rejection
ScanRejects(s) ==
    /\ scans[s].status = "pending"
    /\ scans' = [scans EXCEPT ![s].status = "failed"]
    /\ UNCHANGED <<fixedVars, matcher, service, autocompleteMatchType, ctxVars, procs, docText, disk, nOps, cache, evicted, lastGet,
                   forcedAt>>

\* ------------------------------------------------- resolveClosestContext
\* resolveClosestContext returns `ret` to the handler `pr` that called it: a bare
\* call is over, a request handler goes on after its await
Returned(pr, ret) ==
    IF pr.kind = "resolve" THEN IdleProc
    ELSE [IdleProc EXCEPT !.kind = pr.kind, !.pc = "resolved", !.file = pr.file,
                          !.content = pr.content, !.val = ret, !.gen = pr.gen,
                          !.id = pr.id, !.code = pr.code, !.ctx = pr.ctx,
                          !.paths = pr.paths, !.openDoc = pr.openDoc]

ResolveRecord(pr, ret) ==
    [op |-> "resolve", file |-> pr.file, ret |-> ret, gen |-> pr.gen, alone |-> FALSE,
     prev |-> pr.prev, io |-> pr.io]

\* resolveClosestContext(code, file), from the call to its first await: the
\* exclusion test, the Resolution Cache, the scan of the loaded Contexts and the
\* start of findConfigDirectory(path.dirname(file)).  `pr0` is the calling handler.
ResolveCall(p, pr0) ==
    LET pr == [pr0 EXCEPT !.prev = completed[pr0.file]] IN
    IF ExcludeFileRE(pr.file)
    THEN /\ procs' = Put(p, Returned(pr, Undefined))
         /\ last' = ResolveRecord(pr, Undefined)
         /\ completed' = [completed EXCEPT ![pr.file] = Undefined]
         /\ UNCHANGED configExistsCache
    ELSE IF fileContextCache[pr.file] # NoEntry
    THEN /\ procs' = Put(p, Returned(pr, fileContextCache[pr.file]))
         /\ last' = ResolveRecord(pr, fileContextCache[pr.file])
         /\ completed' = [completed EXCEPT ![pr.file] = fileContextCache[pr.file]]
         /\ UNCHANGED configExistsCache
    ELSE LET w == FindConfigDirectory(configExistsCache, Dirname(pr.file)) IN
         /\ procs' = [procs EXCEPT ![p] =
               [pr EXCEPT !.resolved = ScanContexts(contextsMap, pr.file),
                          !.pc = w.pc, !.dir = w.dir, !.searched = w.searched,
                          !.found = w.found, !.io = (w.pc = "readdir")]]
         /\ configExistsCache' = w.probes
         /\ UNCHANGED <<last, completed>>

\* a bare call of resolveClosestContext
StartResolve(p, file) ==
    /\ FreeSlot(p)
    /\ nOps' = nOps + 1
    /\ ResolveCall(p, [IdleProc EXCEPT !.kind = "resolve", !.file = file,
                                       !.gen = generation])
    /\ UNCHANGED <<fixedVars, matcher, service, autocompleteMatchType, contextsMap, fileContextCache, loadingContexts,
                   configSources, loads, writerGen, ctxHist, cacheVars, docText, disk>>

\* readdir(dir) returns inside hasConfigFiles: the rest of that loop iteration and
\* the next one up to its await
ReaddirReturns(p) ==
    /\ procs[p].pc = "readdir"
    /\ LET pr == procs[p]
           w == IF HasConfigFiles(pr.dir)
                THEN [pc |-> "walked", dir |-> FsRoot, searched |-> << >>,
                      found |-> pr.dir,
                      probes |-> CacheSearchPath(configExistsCache, pr.searched, pr.dir)]
                ELSE WalkEnter(configExistsCache, Dirname(pr.dir), pr.searched)
       IN /\ procs' = [procs EXCEPT ![p].pc = w.pc, ![p].dir = w.dir,
                                    ![p].searched = w.searched, ![p].found = w.found]
          /\ configExistsCache' = w.probes
    /\ UNCHANGED <<fixedVars, matcher, service, autocompleteMatchType, contextsMap, fileContextCache, loadingContexts,
                   configSources, loads, nOps, writerGen, completed, ctxHist, last, cacheVars,
                   docText, disk>>

\* whether resolveClosestContext loads a Context for the discovered directory
PrefersDiscovered(found, resolved) ==
    /\ found # FalseProbe
    /\ (resolved = 0 \/ PathLen(found) > PathLen(ConfigDir(resolved)))

\* resolveClosestContext after `await findConfigDirectory(...)`: load the discovered
\* directory, or return the scanned Context, or load the workspace root
AfterWalk(p) ==
    /\ procs[p].pc = "walked"
    /\ LET pr == procs[p] IN
       IF PrefersDiscovered(pr.found, pr.resolved) \/ pr.resolved = 0
       THEN LET dir == IF PrefersDiscovered(pr.found, pr.resolved)
                       THEN pr.found ELSE Cwd
                allowDefault == ~PrefersDiscovered(pr.found, pr.resolved)
                r == LoadContextInDirectory(contextsMap, loadingContexts, dir)
            IN /\ procs' = Put(p, [CallLoad(pr, r, dir) EXCEPT
                                        !.io = pr.io \/ r.how = "start",
                                        !.allowDefault = allowDefault])
               /\ IF r.how = "start"
                  THEN /\ loads' = Append(loads, NewLoad(dir, allowDefault, generation))
                       /\ loadingContexts' = [loadingContexts EXCEPT ![dir] = r.load]
                  ELSE UNCHANGED <<loads, loadingContexts>>
               /\ UNCHANGED <<fileContextCache, writerGen, last, completed>>
       ELSE /\ fileContextCache' = [fileContextCache EXCEPT ![pr.file] = pr.resolved]
            /\ writerGen' = [writerGen EXCEPT ![pr.file] = pr.gen]
            /\ completed' = [completed EXCEPT ![pr.file] = pr.resolved]
            /\ last' = ResolveRecord(pr, pr.resolved)
            /\ procs' = Put(p, Returned(pr, pr.resolved))
            /\ UNCHANGED <<loads, loadingContexts>>
    /\ UNCHANGED <<fixedVars, matcher, service, autocompleteMatchType, contextsMap, configExistsCache, configSources, nOps,
                   ctxHist, cacheVars, docText, disk>>

\* --------------------------------------------------------------- loadContext
\* loadConfig(dir, ...) returns (or throws) inside loadContext
LoaderReturns(l) ==
    /\ loads[l].pc = "config"
    /\ LET ld == loads[l] IN
       IF fsKind[ld.dir] = "bad"
       THEN /\ loads' = [loads EXCEPT ![l].pc = "done", ![l].result = Error]
            /\ UNCHANGED <<contextsMap, installer>>
       ELSE IF fsKind[ld.dir] # "uno" /\ ~ld.allowDefault
       THEN /\ loads' = [loads EXCEPT ![l].pc = "done", ![l].result = Null]
            /\ contextsMap' = [contextsMap EXCEPT ![ld.dir] = Null]
            /\ installer' = [installer EXCEPT ![ld.dir] = l]
       ELSE /\ loads' = [loads EXCEPT ![l].pc = "gen"]
            /\ UNCHANGED <<contextsMap, installer>>
    /\ UNCHANGED <<fixedVars, matcher, service, autocompleteMatchType, fileContextCache, configExistsCache, loadingContexts,
                   configSources, procs, nOps, writerGen, completed, generation, created,
                   tainted, last, cacheVars, docText, disk>>

\* createGenerator and generator.setConfig have resolved: the rest of loadContext
\* (no shared state is touched between those two awaits)
GeneratorReady(l) ==
    /\ loads[l].pc = "gen"
    /\ LET ld == loads[l] IN
       /\ loads' = [loads EXCEPT ![l].pc = "done", ![l].result = l,
                                 ![l].generator = CreateGenerator(l),
                                 ![CreateGenerator(l)].unoConfig = LoadedConfig(ld.dir),
                                 ![l].autocomplete =
                                     CreateAutocomplete(autocompleteMatchType, "loadContext"),
                                 ![l].made = generation]
       /\ contextsMap' = [contextsMap EXCEPT ![ld.dir] = l]
       /\ installer' = [installer EXCEPT ![ld.dir] = l]
       /\ created' = [created EXCEPT ![ld.dir] = @ \cup {l}]
       /\ configSources' = IF fsKind[ld.dir] = "uno" /\ ld.dir \notin Range(configSources)
                           THEN Append(configSources, ld.dir)
                           ELSE configSources
    /\ UNCHANGED <<fixedVars, matcher, service, autocompleteMatchType, fileContextCache, configExistsCache, loadingContexts,
                   procs, nOps, writerGen, completed, generation, tainted, last, cacheVars,
                   docText, disk>>

\* ----------------------------------------------------- loadContextInDirectory
\* a loadContextInDirectory that removes its In-flight Load entry only when the
\* load did not throw
LoadSettles_DeletesOnSuccess(p) ==
    /\ procs[p].pc = "awaitLoad"
    /\ Settled(procs[p].load)
    /\ procs' = [procs EXCEPT ![p].pc = "loaded",
                              ![p].val = LoadResult(procs[p].load)]
    /\ loadingContexts' = IF procs[p].owner /\ LoadResult(procs[p].load) # Error
                          THEN [loadingContexts EXCEPT ![procs[p].ldir] = 0]
                          ELSE loadingContexts
    /\ UNCHANGED <<fixedVars, matcher, service, autocompleteMatchType, contextsMap, fileContextCache, configExistsCache,
                   configSources, loads, nOps, writerGen, completed, ctxHist, last, cacheVars,
                   docText, disk>>

\* The awaited load promise has settled.  The caller that started the load runs
\* the finally block (loadingContexts.delete(dir)); a caller that attached to the
\* pending promise just receives its outcome.
LoadSettles(p) ==
    /\ procs[p].pc = "awaitLoad"
    /\ Settled(procs[p].load)
    /\ procs' = [procs EXCEPT ![p].pc = "loaded",
                              ![p].val = LoadResult(procs[p].load)]
    /\ loadingContexts' = IF procs[p].owner
                          THEN [loadingContexts EXCEPT ![procs[p].ldir] = 0]
                          ELSE loadingContexts
    /\ UNCHANGED <<fixedVars, matcher, service, autocompleteMatchType, contextsMap, fileContextCache, configExistsCache,
                   configSources, loads, nOps, writerGen, completed, ctxHist, last, cacheVars,
                   docText, disk>>

\* resolveClosestContext after `await loadContextInDirectory(...)`: the outcome is
\* written to the Resolution Cache and returned (a rejection propagates)
ResolveReturns(p) ==
    /\ procs[p].kind \notin {"idle", "reload"}
    /\ procs[p].pc = "loaded"
    /\ LET pr == procs[p]
           ret == IF pr.val = Null THEN Undefined ELSE pr.val
       IN /\ IF pr.val = Error
             THEN UNCHANGED <<fileContextCache, writerGen>>
             ELSE /\ fileContextCache' = [fileContextCache EXCEPT ![pr.file] = ret]
                  /\ writerGen' = [writerGen EXCEPT ![pr.file] = pr.gen]
          /\ last' = ResolveRecord(pr, ret)
          /\ completed' = [completed EXCEPT ![pr.file] = ret]
          /\ procs' = Put(p, Returned(pr, ret))
    /\ UNCHANGED <<fixedVars, matcher, service, autocompleteMatchType, contextsMap, configExistsCache, loadingContexts,
                   configSources, loads, nOps, ctxHist, cacheVars, docText, disk>>

\* -------------------------------------------------------------------- reload
\* no handler is in progress
Quiet == \A q \in Slots : procs[q].kind = "idle"

\* a reload() that keeps the Directory Probe cache
ReloadCall_KeepsProbes(p) ==
    /\ FreeSlot(p)
    /\ nOps' = nOps + 1
    /\ fileContextCache' = [f \in Paths |-> NoEntry]
    /\ UNCHANGED configExistsCache
    /\ contextsMap' = [d \in Dirs |-> NoEntry]
    /\ configSources' = << >>
    /\ LET r == LoadContextInDirectory([d \in Dirs |-> NoEntry], [d \in Dirs |-> 0], Cwd)
       IN /\ loads' = Append(loads, NewLoad(Cwd, TRUE, generation + 1))
          /\ loadingContexts' = [d \in Dirs |-> IF d = Cwd THEN r.load ELSE 0]
          /\ procs' = [q \in Slots |->
                IF q = p
                THEN [CallLoad(IdleProc, r, Cwd) EXCEPT
                         !.kind = "reload", !.gen = generation + 1,
                         !.allowDefault = TRUE,
                         !.ops = IF Quiet THEN nOps + 1 ELSE 0 - 1]
                ELSE [procs[q] EXCEPT !.prev = NoEntry]]
    /\ generation' = generation + 1
    /\ tainted' = [d \in Dirs |-> tainted[d] \/ \E l \in 1..Len(loads) : loads[l].dir = d]
    /\ created' = [d \in Dirs |-> {}]
    /\ installer' = [d \in Dirs |-> 0]
    /\ writerGen' = [f \in Paths |-> 0]
    /\ completed' = [f \in Paths |-> NoEntry]
    /\ UNCHANGED <<fixedVars, matcher, service, autocompleteMatchType, last, docText, disk>>

\* reload() up to its await: the four maps and configSources are cleared and the
\* load of the workspace root is started (nothing is cached or pending any more)
ReloadCall(p) ==
    /\ FreeSlot(p)
    /\ nOps' = nOps + 1
    /\ fileContextCache' = [f \in Paths |-> NoEntry]
    /\ configExistsCache' = [d \in Dirs |-> NoProbe]
    /\ contextsMap' = [d \in Dirs |-> NoEntry]
    /\ configSources' = << >>
    /\ LET r == LoadContextInDirectory([d \in Dirs |-> NoEntry], [d \in Dirs |-> 0], Cwd)
       IN /\ loads' = Append(loads, NewLoad(Cwd, TRUE, generation + 1))
          /\ loadingContexts' = [d \in Dirs |-> IF d = Cwd THEN r.load ELSE 0]
          /\ procs' = [q \in Slots |->
                IF q = p
                THEN [CallLoad(IdleProc, r, Cwd) EXCEPT
                         !.kind = "reload", !.gen = generation + 1,
                         !.allowDefault = TRUE,
                         !.ops = IF Quiet THEN nOps + 1 ELSE 0 - 1]
                ELSE [procs[q] EXCEPT !.prev = NoEntry]]
    /\ generation' = generation + 1
    /\ tainted' = [d \in Dirs |-> tainted[d] \/ \E l \in 1..Len(loads) : loads[l].dir = d]
    /\ created' = [d \in Dirs |-> {}]
    /\ installer' = [d \in Dirs |-> 0]
    /\ writerGen' = [f \in Paths |-> 0]
    /\ completed' = [f \in Paths |-> NoEntry]
    /\ UNCHANGED <<fixedVars, matcher, service, autocompleteMatchType, last, docText, disk>>

\* a bare call of reload()
StartReload(p) ==
    /\ ReloadCall(p)
    /\ UNCHANGED cacheVars

\* reload() after `await loadContextInDirectory(cwd, true)`
ReloadReturns(p) ==
    /\ procs[p].kind = "reload"
    /\ procs[p].pc = "loaded"
    /\ last' = [op |-> "reload", file |-> FsRoot,
                ret |-> IF procs[p].val = Error THEN Error ELSE Void,
                gen |-> procs[p].gen,
                alone |-> /\ procs[p].ops = nOps
                          /\ \A q \in Slots \ {p} : procs[q].kind = "idle",
                prev |-> NoEntry, io |-> FALSE]
    /\ procs' = Put(p, IdleProc)
    /\ UNCHANGED <<fixedVars, matcher, service, autocompleteMatchType, contextsMap, fileContextCache, configExistsCache,
                   loadingContexts, configSources, loads, nOps, writerGen, completed, ctxHist,
                   cacheVars, docText, disk>>

\* ------------------------------------------------- setAutocompleteMatchType
\* a setAutocompleteMatchType that also drops the Resolution Cache
SetAutocompleteMatchType_DropsResolutions(matchType) ==
    /\ nOps < opLimit
    /\ nOps' = nOps + 1
    /\ autocompleteMatchType' = matchType
    /\ fileContextCache' = [f \in Paths |-> NoEntry]
    /\ loads' = [l \in 1..Len(loads) |->
                   IF \E d \in Dirs : contextsMap[d] = l
                   THEN [loads[l] EXCEPT !.autocomplete =
                            CreateAutocomplete(matchType, "setAutocompleteMatchType")]
                   ELSE loads[l]]
    /\ UNCHANGED <<fixedVars, matcher, service, contextsMap, configExistsCache,
                   loadingContexts, configSources, procs, writerGen, completed, ctxHist, last,
                   cacheVars, docText, disk>>

\* a setAutocompleteMatchType that stores the type and rebuilds no engine
SetAutocompleteMatchType_StoresOnly(matchType) ==
    /\ nOps < opLimit
    /\ nOps' = nOps + 1
    /\ autocompleteMatchType' = matchType
    /\ UNCHANGED <<fixedVars, matcher, service, loads, contextsMap, fileContextCache,
                   configExistsCache, loadingContexts, configSources, procs, writerGen,
                   completed, ctxHist, last, cacheVars, docText, disk>>

\* setAutocompleteMatchType(matchType): nothing when the type is the stored one;
\* otherwise it is stored and every Context in contextsMap gets a new engine
SetAutocompleteMatchType(matchType) ==
    /\ nOps < opLimit
    /\ nOps' = nOps + 1
    /\ IF autocompleteMatchType = matchType
       THEN UNCHANGED <<autocompleteMatchType, loads>>
       ELSE /\ autocompleteMatchType' = matchType
            /\ loads' = [l \in 1..Len(loads) |->
                   IF \E d \in Dirs : contextsMap[d] = l
                   THEN [loads[l] EXCEPT !.autocomplete =
                            CreateAutocomplete(matchType, "setAutocompleteMatchType")]
                   ELSE loads[l]]
    /\ UNCHANGED <<fixedVars, matcher, service, contextsMap, fileContextCache, configExistsCache,
                   loadingContexts, configSources, procs, writerGen, completed, ctxHist, last,
                   cacheVars, docText, disk>>

\* -------------------------------------------------------------------- server
\* defaultSettings.strictAnnotationMatch
StrictAnnotationMatch == FALSE

\* isTarget(id)
IsTarget(cm, id) ==
    LET contextDirs == {d \in Dirs : cm[d] # NoEntry} IN
    \/ contextDirs = {}
    \/ \E contextDir \in contextDirs : id = contextDir \/ IsSubdir(contextDir, id)

\* a bare call of isTarget(id); its boolean result is recorded as 1 or 0
CallIsTarget(id) ==
    /\ nOps < opLimit
    /\ nOps' = nOps + 1
    /\ last' = [op |-> "isTarget", file |-> id,
                ret |-> IF IsTarget(contextsMap, id) THEN 1 ELSE 0,
                gen |-> generation, alone |-> FALSE,
                prev |-> NoEntry, io |-> FALSE]
    /\ UNCHANGED <<fixedVars, matcher, service, autocompleteMatchType, contextsMap, fileContextCache,
                   configExistsCache, loadingContexts, configSources, loads, procs,
                   writerGen, completed, ctxHist, cacheVars, docText, disk>>

\* connection.onHover up to its first await: the isTarget test, doc.getText() and
\* the call of resolveClosestContext
Hover(p, doc) ==
    /\ FreeSlot(p)
    /\ nOps' = nOps + 1
    /\ IF ~IsTarget(contextsMap, doc)
       THEN UNCHANGED <<procs, last, completed, configExistsCache>>
       ELSE ResolveCall(p, [IdleProc EXCEPT !.kind = "hover", !.file = doc,
                                            !.content = docText[doc],
                                            !.gen = generation])
    /\ UNCHANGED <<fixedVars, matcher, service, autocompleteMatchType, contextsMap, fileContextCache, loadingContexts,
                   configSources, loads, writerGen, ctxHist, cacheVars, docText, disk>>

\* connection.onDocumentColor up to its first await
DocumentColor(p, doc) ==
    /\ FreeSlot(p)
    /\ nOps' = nOps + 1
    /\ ResolveCall(p, [IdleProc EXCEPT !.kind = "color", !.file = doc,
                                       !.content = docText[doc],
                                       !.gen = generation])
    /\ UNCHANGED <<fixedVars, matcher, service, autocompleteMatchType, contextsMap, fileContextCache, loadingContexts,
                   configSources, loads, writerGen, ctxHist, cacheVars, docText, disk>>

\* onHover / onDocumentColor after `await resolveClosestContext(...)`: without a
\* Context the request is over; otherwise the positions of the text read before
\* the await are asked of the match cache
HandlerContinues(p) ==
    /\ procs[p].pc = "resolved"
    /\ LET pr == procs[p] IN
       IF pr.val < 1
       THEN /\ procs' = Put(p, IdleProc)
            /\ UNCHANGED cacheVars
       ELSE /\ CallGet(pr.kind, loads[pr.val].generator, pr.content, pr.file,
                       StrictAnnotationMatch, FALSE)
            /\ procs' = [procs EXCEPT ![p].pc = "awaitScan", ![p].scan = cache'[lastGet'.key]]
    /\ UNCHANGED <<fixedVars, matcher, service, autocompleteMatchType, ctxVars, nOps, docText, disk>>

\* the awaited positions arrive and the request is answered from them
HandlerReturns(p) ==
    /\ procs[p].pc = "awaitScan"
    /\ scans[procs[p].scan].status = "done"
    /\ procs' = Put(p, IdleProc)
    /\ UNCHANGED <<fixedVars, matcher, service, autocompleteMatchType, ctxVars, nOps, docText, disk, cacheVars>>

\* documents.onDidChangeContent: the document holds its new text and its cache
\* entries are cleared
DidChangeContent(doc, text) ==
    /\ nOps < opLimit
    /\ nOps' = nOps + 1
    /\ text # docText[doc]
    /\ docText' = [docText EXCEPT ![doc] = text]
    /\ CallClearDocument(doc)
    /\ UNCHANGED <<fixedVars, matcher, service, autocompleteMatchType, ctxVars, procs, disk>>

\* The unocss/reloadConfig request (and the throttled reload after a watched
\* configuration file changed) up to its await: clearAllCache(), then reload()
ReloadConfig(p) ==
    /\ ReloadCall(p)
    /\ cache' = ClearAllCache(cache)
    /\ UNCHANGED <<scans, evicted, lastGet, forcedAt>>

\* ------------------------------------------------------------- onReferences
\* what collectWorkspaceFiles(workspacePath, maxWorkspaceReferenceFiles) returns:
\* the reference-candidate files of the workspace
WorkspaceFiles == <<AppFile, RootFile>>

\* a reference search that never forces
ForceArgument_Never(openDoc) == FALSE

\* the force argument of the per-file getMatchedPositionsFromDoc call: !openDoc
ForceArgument(openDoc) == ~openDoc

\* documents.onDidOpen: the document is in `documents` with the editor's text;
\* TextDocuments fires onDidChangeContent for it, which clears its cache entries
DidOpen(doc, text) ==
    /\ nOps < opLimit
    /\ nOps' = nOps + 1
    /\ doc \notin DOMAIN docText
    /\ docText' = [d \in DOMAIN docText \cup {doc} |-> IF d = doc THEN text ELSE docText[d]]
    /\ CallClearDocument(doc)
    /\ UNCHANGED <<fixedVars, matcher, service, autocompleteMatchType, ctxVars, procs, disk>>

\* documents.onDidClose: the document leaves `documents` and its cache entries
\* are cleared
DidClose(doc) ==
    /\ nOps < opLimit
    /\ nOps' = nOps + 1
    /\ doc \in DOMAIN docText
    /\ docText' = [d \in DOMAIN docText \ {doc} |-> docText[d]]
    /\ CallClearDocument(doc)
    /\ UNCHANGED <<fixedVars, matcher, service, autocompleteMatchType, ctxVars, procs, disk>>

\* a file of the workspace is written on disk: what the next readFile of it returns
FileWritten(f, text) ==
    /\ nOps < opLimit
    /\ nOps' = nOps + 1
    /\ text # disk[f]
    /\ disk' = [disk EXCEPT ![f] = text]
    /\ UNCHANGED <<fixedVars, matcher, service, autocompleteMatchType, ctxVars, procs,
                   cacheVars, docText>>

\* connection.onReferences up to its first await: documents.get, doc.getText()
\* and the call of resolveClosestContext(code, id)
References(p, doc) ==
    /\ FreeSlot(p)
    /\ nOps' = nOps + 1
    /\ IF doc \notin DOMAIN docText
       THEN UNCHANGED <<procs, last, completed, configExistsCache>>
       ELSE ResolveCall(p, [IdleProc EXCEPT !.kind = "references", !.file = doc,
                                            !.content = docText[doc],
                                            !.gen = generation, !.id = doc,
                                            !.code = docText[doc]])
    /\ UNCHANGED <<fixedVars, matcher, service, autocompleteMatchType, contextsMap, fileContextCache, loadingContexts,
                   configSources, loads, writerGen, ctxHist, cacheVars, docText, disk>>

\* onReferences after `await resolveClosestContext(code, id)`: null without a
\* Context, otherwise the positions of the requesting document are asked of the
\* match cache (force left at its default)
ReferencesContinues(p) ==
    /\ procs[p].kind = "references" /\ procs[p].pc = "resolved" /\ procs[p].ctx = 0
    /\ LET pr == procs[p] IN
       IF pr.val < 1
       THEN /\ procs' = Put(p, IdleProc)
            /\ UNCHANGED cacheVars
       ELSE /\ CallGet("references", loads[pr.val].generator, pr.code, pr.id,
                       StrictAnnotationMatch, FALSE)
            /\ procs' = [procs EXCEPT ![p].pc = "awaitDocScan", ![p].ctx = pr.val,
                                      ![p].scan = cache'[lastGet'.key]]
    /\ UNCHANGED <<fixedVars, matcher, service, autocompleteMatchType, ctxVars, nOps, docText, disk>>

\* the positions of the requesting document arrive: null when no position covers
\* the cursor, otherwise the names are collected from the generator's cache and
\* collectWorkspaceFiles is awaited
ReferencesMatched(p, matched) ==
    /\ procs[p].pc = "awaitDocScan"
    /\ scans[procs[p].scan].status = "done"
    /\ procs' = IF matched THEN [procs EXCEPT ![p].pc = "collect"] ELSE Put(p, IdleProc)
    /\ UNCHANGED <<fixedVars, matcher, service, autocompleteMatchType, ctxVars, nOps, docText, disk,
                   cacheVars>>

\* collectWorkspaceFiles returns; the requesting document is added when missing
ReferencesCollected(p) ==
    /\ procs[p].pc = "collect"
    /\ procs' = [procs EXCEPT ![p].pc = "next",
                              ![p].paths = IF procs[p].id \in Range(WorkspaceFiles)
                                           THEN WorkspaceFiles
                                           ELSE Append(WorkspaceFiles, procs[p].id)]
    /\ UNCHANGED <<fixedVars, matcher, service, autocompleteMatchType, ctxVars, nOps, docText, disk,
                   cacheVars>>

\* The loop body from `const openDoc = documents.get(fileUri)` to its next await,
\* for the file pr.file whose content has been read: the requesting document
\* keeps the Context already resolved and its positions are asked at once, for
\* any other file resolveClosestContext(fileContent, filePath) is called.
ReferencesExamine(p, pr, fileContent, openDoc) ==
    IF pr.file = pr.id
    THEN /\ CallGet("references", loads[pr.ctx].generator, fileContent, pr.file,
                    StrictAnnotationMatch, ForceArgument(openDoc))
         /\ procs' = [procs EXCEPT ![p] =
               [pr EXCEPT !.pc = "awaitFileScan", !.content = fileContent,
                          !.openDoc = openDoc, !.scan = cache'[lastGet'.key]]]
         /\ UNCHANGED <<last, completed, configExistsCache>>
    ELSE /\ ResolveCall(p, [pr EXCEPT !.content = fileContent, !.openDoc = openDoc,
                                      !.gen = generation])
         /\ UNCHANGED cacheVars

\* The top of `for (const filePath of filePaths)`: the search returns its
\* locations after the last file; readWorkspaceDocument answers an open document
\* from its text and goes on, and awaits readFile for any other file.
ReferencesNextFile(p) ==
    /\ procs[p].pc = "next"
    /\ LET pr == procs[p] IN
       IF pr.paths = << >>
       THEN /\ procs' = Put(p, IdleProc)
            /\ UNCHANGED <<last, completed, configExistsCache, cacheVars>>
       ELSE LET f == Head(pr.paths)
                pr1 == [pr EXCEPT !.file = f, !.paths = Tail(pr.paths)]
            IN IF f \in DOMAIN docText
               THEN ReferencesExamine(p, pr1, docText[f], TRUE)
               ELSE /\ procs' = [procs EXCEPT ![p] = [pr1 EXCEPT !.pc = "readFile"]]
                    /\ UNCHANGED <<last, completed, configExistsCache, cacheVars>>
    /\ UNCHANGED <<fixedVars, matcher, service, autocompleteMatchType, contextsMap, fileContextCache, loadingContexts,
                   configSources, loads, writerGen, ctxHist, nOps, docText, disk>>

\* readFile(filePath) returns the content on disk; documents.get(fileUri) is read
\* after it
ReferencesFileRead(p) ==
    /\ procs[p].pc = "readFile"
    /\ ReferencesExamine(p, procs[p], disk[procs[p].file],
                         procs[p].file \in DOMAIN docText)
    /\ UNCHANGED <<fixedVars, matcher, service, autocompleteMatchType, contextsMap, fileContextCache, loadingContexts,
                   configSources, loads, writerGen, ctxHist, nOps, docText, disk>>

\* the loop body after `await resolveClosestContext(fileContent, filePath)`: a
\* file without a Context is skipped, otherwise its positions are asked of the
\* match cache with force = !openDoc
ReferencesFileContext(p) ==
    /\ procs[p].kind = "references" /\ procs[p].pc = "resolved" /\ procs[p].ctx # 0
    /\ LET pr == procs[p] IN
       IF pr.val < 1
       THEN /\ procs' = [procs EXCEPT ![p].pc = "next"]
            /\ UNCHANGED cacheVars
       ELSE /\ CallGet("references", loads[pr.val].generator, pr.content, pr.file,
                       StrictAnnotationMatch, ForceArgument(pr.openDoc))
            /\ procs' = [procs EXCEPT ![p].pc = "awaitFileScan",
                                      ![p].scan = cache'[lastGet'.key]]
    /\ UNCHANGED <<fixedVars, matcher, service, autocompleteMatchType, ctxVars, nOps, docText, disk>>

\* the positions of the file arrive; its locations are collected and the loop
\* goes on
ReferencesFilePositions(p) ==
    /\ procs[p].pc = "awaitFileScan"
    /\ scans[procs[p].scan].status = "done"
    /\ procs' = [procs EXCEPT ![p].pc = "next"]
    /\ UNCHANGED <<fixedVars, matcher, service, autocompleteMatchType, ctxVars, nOps, docText, disk,
                   cacheVars>>


\* ------------------------------------------------------------ Token Matcher
\* A text is a sequence of lexemes: "S" a skip-start comment, "E" a skip-end
\* comment, "q" a quote, "@" an @apply keyword, ";" a semicolon, "a" a utility
\* the generator recognises.
Symbols == {"S", "E", "q", "@", ";", "a"}
Texts(n) == UNION {[1..k -> Symbols] : k \in 0..n}

\* A pattern is the lexeme its match opens with and the lexeme that closes it:
\* SKIP_COMMENT_RE (start comment, lazily anything, end comment), the quoted
\* string and the directive statement of defaultIdeMatchInclude
SKIP_COMMENT_RE == <<"S", "E">>
QuoteRE == <<"q", "q">>
DirectiveRE == <<"@", ";">>
DefaultIdeMatchInclude == {QuoteRE, DirectiveRE}
DefaultIdeMatchExclude == {SKIP_COMMENT_RE}

\* code.matchAll(re) from position `from`: the leftmost opening lexeme, the first
\* closing lexeme after it, then on from behind the match
RECURSIVE MatchAll(_, _, _)
MatchAll(code, re, from) ==
    LET starts == {i \in from..Len(code) : code[i] = re[1]} IN
    IF starts = {} THEN {}
    ELSE LET st == CHOOSE i \in starts : \A j \in starts : i <= j
             ends == {j \in (st + 1)..Len(code) : code[j] = re[2]}
         IN IF ends = {} THEN {}
            ELSE LET en == CHOOSE j \in ends : \A k \in ends : j <= k
                 IN {<<st, en>>} \cup MatchAll(code, re, en + 1)

\* the positions covered by the matches of a set of patterns
Covered(code, res) ==
    {i \in 1..Len(code) : \E re \in res : \E r \in MatchAll(code, re, 1) :
                              r[1] <= i /\ i <= r[2]}

\* a matcher that does not take the exclusion regions out of the scan domain
ScanDomain_Everything(code, excludeRegex) == 1..Len(code)

\* the scan domain: the text without the exclusion regions
ScanDomain(code, excludeRegex) == (1..Len(code)) \ Covered(code, excludeRegex)

\* the (start, end, token) triples of the recognised utilities that lie in an
\* included region of the scan domain, in text order
GetMatchedPositions(code, includeRegex, excludeRegex) ==
    LET hits == {i \in ScanDomain(code, excludeRegex) \cap Covered(code, includeRegex) :
                    code[i] = "a"}
        idx == SelectSeq([i \in 1..Len(code) |-> i], LAMBDA i : i \in hits)
    IN [k \in 1..Len(idx) |-> <<idx[k] - 1, idx[k], code[idx[k]]>>]

\* The entries of uno.config.transformers: "declines" has a transform() that
\* returns undefined, "malformed" has no transform(), "directives" is
\* @unocss/transformer-directives, which the matcher leaves out by name.
TransformerKinds == {"declines", "malformed", "directives"}
TransformerLists(n) == UNION {[1..k -> TransformerKinds] : k \in 0..n}

\* a matcher that calls transform() on every entry
ApplyTransformer_CallsBlindly(entry, code) ==
    IF entry = "malformed" THEN <<"TypeError">> ELSE code

\* one entry of the transformer list applied to the text: an entry without
\* transform() is skipped, a transform() that returns undefined leaves the text
ApplyTransformer(entry, code) ==
    IF entry = "malformed" THEN code
    ELSE IF entry = "directives" THEN code
    ELSE code

\* the text after the transformer list, or <<"TypeError">> when an entry threw
RECURSIVE RunTransformers(_, _)
RunTransformers(transformers, code) ==
    IF transformers = << >> THEN code
    ELSE LET c == ApplyTransformer(Head(transformers), code) IN
         IF c = <<"TypeError">> THEN c ELSE RunTransformers(Tail(transformers), c)

\* getMatchedPositionsFromCode(uno, code, id, options)
GetMatchedPositionsFromCode(transformers, code, includeRegex, excludeRegex) ==
    IF RunTransformers(transformers, code) = <<"TypeError">>
    THEN [status |-> "rejected", value |-> << >>]
    ELSE [status |-> "resolved",
          value |-> GetMatchedPositions(code, includeRegex, excludeRegex)]

NoPositions == [status |-> "none", value |-> << >>]

\* a call of getMatchedPositionsFromCode with the default pattern sets
Scan ==
    /\ matcher.positions = NoPositions
    /\ matcher' = [matcher EXCEPT !.positions =
                      GetMatchedPositionsFromCode(matcher.transformers, matcher.code,
                          DefaultIdeMatchInclude, DefaultIdeMatchExclude)]
    /\ UNCHANGED <<fixedVars, service, autocompleteMatchType, ctxVars, procs, nOps,
                   cacheVars, docText, disk>>

\* ------------------------------------------------- single-generator service
\* the directories resolveConfig is called for: those where the Config Loader's
\* answer is the directory's own (a uno configuration, or none up to the root)
ServiceRoots ==
    {d \in {Cwd, AppDir, SrcDir} :
        \/ fsKind[d] = "uno"
        \/ \A e \in {Cwd, AppDir, SrcDir} : (e = d \/ IsSubdir(e, d)) => fsKind[e] = "none"}

\* the configuration resolveConfig hands to generator.setConfig: result.config,
\* or {} (the defaults) when the loader found none
SetConfigArgument(config) ==
    IF config # {} THEN config ELSE {}

\* resolveConfig(rootDir) up to `await loadConfig(...)`
ResolveConfig(rootDir) ==
    /\ Len(service.calls) < MaxResolves
    /\ service' = [service EXCEPT !.calls =
                      Append(@, [dir |-> rootDir, pc |-> "loadConfig", config |-> {}])]
    /\ UNCHANGED <<fixedVars, matcher, autocompleteMatchType, ctxVars, procs, nOps,
                   cacheVars, docText, disk>>

\* loadConfig returns: generator.setConfig is called with the loaded or the empty
\* configuration and awaited
LoadConfigReturns(i) ==
    /\ service.calls[i].pc = "loadConfig"
    /\ service' = [service EXCEPT
          !.calls[i].pc = "setConfig",
          !.calls[i].config = SetConfigArgument(LoadedConfig(service.calls[i].dir))]
    /\ UNCHANGED <<fixedVars, matcher, autocompleteMatchType, ctxVars, procs, nOps,
                   cacheVars, docText, disk>>

\* generator.setConfig resolves: the shared generator holds the configuration
SetConfigResolves(i) ==
    /\ service.calls[i].pc = "setConfig"
    /\ service' = [service EXCEPT !.calls[i].pc = "autocomplete",
                                  !.config = service.calls[i].config]
    /\ UNCHANGED <<fixedVars, matcher, autocompleteMatchType, ctxVars, procs, nOps,
                   cacheVars, docText, disk>>

\* resolveConfig after `await generator.setConfig(...)`: the autocomplete engine
\* is replaced and the call returns
ResolveConfigReturns(i) ==
    /\ service.calls[i].pc = "autocomplete"
    /\ service' = [service EXCEPT
          !.calls[i].pc = "done",
          !.autocomplete = CreateAutocomplete("prefix", "resolveConfig"),
          !.last = i]
    /\ UNCHANGED <<fixedVars, matcher, autocompleteMatchType, ctxVars, procs, nOps,
                   cacheVars, docText, disk>>

\* ------------------------------------------------------------------- Init
\* The state after `new ContextManager(cwd, connection)`: the constructor has
\* called reload(), which cleared the (empty) maps and started the load of the
\* workspace root with allowDefault = true; `ready` is pending on it.
InitCtx ==
    /\ autocompleteMatchType = "prefix"
    /\ contextsMap = [d \in Dirs |-> NoEntry]
    /\ fileContextCache = [f \in Paths |-> NoEntry]
    /\ configExistsCache = [d \in Dirs |-> NoProbe]
    /\ loadingContexts = [d \in Dirs |-> IF d = Cwd THEN 1 ELSE 0]
    /\ configSources = << >>
    /\ loads = << NewLoad(Cwd, TRUE, 0) >>
    /\ procs = [p \in Slots |->
                 IF p = 1
                 THEN [IdleProc EXCEPT !.kind = "reload", !.pc = "awaitLoad",
                                       !.ldir = Cwd, !.load = 1, !.owner = TRUE,
                                       !.ops = 0, !.allowDefault = TRUE]
                 ELSE IdleProc]
    /\ generation = 0
    /\ installer = [d \in Dirs |-> 0]
    /\ writerGen = [f \in Paths |-> 0]
    /\ completed = [f \in Paths |-> NoEntry]
    /\ created = [d \in Dirs |-> {}]
    /\ tainted = [d \in Dirs |-> FALSE]
    /\ last = NoLast

\* no ContextManager has been constructed
InitNoManager ==
    /\ autocompleteMatchType = "prefix"
    /\ contextsMap = [d \in Dirs |-> NoEntry]
    /\ fileContextCache = [f \in Paths |-> NoEntry]
    /\ configExistsCache = [d \in Dirs |-> NoProbe]
    /\ loadingContexts = [d \in Dirs |-> 0]
    /\ configSources = << >>
    /\ loads = << >>
    /\ procs = [p \in Slots |-> IdleProc]
    /\ generation = 0
    /\ installer = [d \in Dirs |-> 0]
    /\ writerGen = [f \in Paths |-> 0]
    /\ completed = [f \in Paths |-> NoEntry]
    /\ created = [d \in Dirs |-> {}]
    /\ tainted = [d \in Dirs |-> FALSE]
    /\ last = NoLast

\* the empty `cache` Map of cache.ts and the documents open in the editor
InitCacheVars ==
    /\ cache = [k \in Keys |-> 0]
    /\ scans = << >>
    /\ evicted = [k \in Keys |-> FALSE]
    /\ lastGet = NoGet
    /\ forcedAt = [k \in Keys |-> 0 - 1]
    /\ docText = [d \in OpenDocs |-> "c1"]
    /\ disk = [f \in Files |-> "c1"]

\* no text is being scanned
InitNoScan ==
    matcher = [code |-> << >>, transformers |-> << >>, positions |-> NoPositions]

\* service.ts after import: the shared generator on the default configuration
InitService ==
    service = [config |-> {}, autocomplete |-> CreateAutocomplete("prefix", "module"),
               calls |-> << >>, last |-> 0]

\* The ContextManager on its own: bare resolveClosestContext and reload calls,
\* in any interleaving, over the layouts.
Init ==
    /\ fsKind \in Layouts
    /\ opLimit = MaxOps
    /\ nOps = 0
    /\ InitCtx
    /\ InitCacheVars
    /\ InitNoScan
    /\ InitService

Next ==
    \/ \E p \in Slots, f \in Files : StartResolve(p, f)
    \/ \E p \in Slots : ReaddirReturns(p)
    \/ \E p \in Slots : AfterWalk(p)
    \/ \E l \in 1..Len(loads) : LoaderReturns(l)
    \/ \E l \in 1..Len(loads) : GeneratorReady(l)
    \/ \E p \in Slots : LoadSettles(p)
    \/ \E p \in Slots : ResolveReturns(p)
    \/ \E p \in Slots : StartReload(p)
    \/ \E p \in Slots : ReloadReturns(p)
    \/ \E id \in Files : CallIsTarget(id)

Spec == Init /\ [][Next]_vars

\* One generation of the ContextManager: resolveClosestContext calls in any
\* interleaving after construction, no further reload(), over the layouts with a
\* nested directory whose load yields a Context and one whose load yields absent.
InitLoad ==
    /\ fsKind \in {Layout("uno", "uno", "none"), Layout("none", "fw", "none")}
    /\ opLimit = MaxOps
    /\ nOps = 0
    /\ InitCtx
    /\ InitCacheVars
    /\ InitNoScan
    /\ InitService

NextLoad ==
    \/ \E p \in Slots, f \in Files : StartResolve(p, f)
    \/ \E p \in Slots : ReaddirReturns(p)
    \/ \E p \in Slots : AfterWalk(p)
    \/ \E l \in 1..Len(loads) : LoaderReturns(l)
    \/ \E l \in 1..Len(loads) : GeneratorReady(l)
    \/ \E p \in Slots : LoadSettles(p)
    \/ \E p \in Slots : ResolveReturns(p)
    \/ \E p \in Slots : ReloadReturns(p)

SpecLoad == InitLoad /\ [][NextLoad]_vars

\* The ContextManager used by one caller at a time: a resolveClosestContext or
\* reload() call starts only when the previous call has returned.  The
\* synchronous setAutocompleteMatchType (a settings change) may run at any await.
InitSeq ==
    /\ fsKind \in Layouts
    /\ opLimit = MaxOps
    /\ nOps = 0
    /\ InitCtx
    /\ InitCacheVars
    /\ InitNoScan
    /\ InitService

NextSeq ==
    \/ \E p \in Slots, f \in Paths : Quiet /\ StartResolve(p, f)
    \/ \E p \in Slots : Quiet /\ StartReload(p)
    \/ \E matchType \in MatchTypes : SetAutocompleteMatchType(matchType)
    \/ \E p \in Slots : ReaddirReturns(p)
    \/ \E p \in Slots : AfterWalk(p)
    \/ \E l \in 1..Len(loads) : LoaderReturns(l)
    \/ \E l \in 1..Len(loads) : GeneratorReady(l)
    \/ \E p \in Slots : LoadSettles(p)
    \/ \E p \in Slots : ResolveReturns(p)
    \/ \E p \in Slots : ReloadReturns(p)

SpecSeq == InitSeq /\ [][NextSeq]_vars

\* The same, with every directory listing returning: readdir's promise settles,
\* so the step that resumes a walk awaiting it is taken.
SpecSeqFair == SpecSeq /\ WF_vars(\E p \in Slots : ReaddirReturns(p))

\* The match cache on its own (cache.ts imports nothing of the ContextManager):
\* its three functions called directly.
InitCache ==
    /\ fsKind = Layout("none", "none", "none")
    /\ opLimit = MaxCacheOps
    /\ nOps = 0
    /\ InitNoManager
    /\ InitCacheVars
    /\ InitNoScan
    /\ InitService

NextCache ==
    \/ \E uno \in Generators, code \in Contents, id \in {RootFile, AppFile},
          strict \in BOOLEAN, force \in BOOLEAN :
             CacheGet(uno, code, id, strict, force)
    \/ \E id \in {RootFile, AppFile} : CacheClearDocument(id)
    \/ CacheClearAll
    \/ \E s \in 1..Len(scans) : ScanSettles(s)

SpecCache == InitCache /\ [][NextCache]_vars

\* The match cache of one document whose scans may succeed or fail.
InitScan ==
    /\ fsKind = Layout("none", "none", "none")
    /\ opLimit = MaxCacheOps
    /\ nOps = 0
    /\ InitNoManager
    /\ InitCacheVars
    /\ InitNoScan
    /\ InitService

NextScan ==
    \/ \E uno \in Generators, code \in Contents, strict \in BOOLEAN, force \in BOOLEAN :
             CacheGet(uno, code, RootFile, strict, force)
    \/ CacheClearDocument(RootFile)
    \/ CacheClearAll
    \/ \E s \in 1..Len(scans) : ScanSettles(s)
    \/ \E s \in 1..Len(scans) : ScanRejects(s)

SpecScan == InitScan /\ [][NextScan]_vars

\* The server after onInitialize: the ContextManager is constructed for a
\* workspace with a root configuration, one document is open, and hover and
\* document-color requests race with the document's change notifications.
InitServer ==
    /\ fsKind = Layout("uno", "none", "none")
    /\ opLimit = MaxServerOps
    /\ nOps = 0
    /\ InitCtx
    /\ InitCacheVars
    /\ InitNoScan
    /\ InitService

NextServer ==
    \/ \E p \in Slots, doc \in OpenDocs : Hover(p, doc)
    \/ \E p \in Slots, doc \in OpenDocs : DocumentColor(p, doc)
    \/ \E p \in Slots : HandlerContinues(p)
    \/ \E p \in Slots : HandlerReturns(p)
    \/ \E doc \in OpenDocs, text \in Contents : DidChangeContent(doc, text)
    \/ \E p \in Slots : ReloadConfig(p)
    \/ \E s \in 1..Len(scans) : ScanSettles(s)
    \/ \E p \in Slots : ReaddirReturns(p)
    \/ \E p \in Slots : AfterWalk(p)
    \/ \E l \in 1..Len(loads) : LoaderReturns(l)
    \/ \E l \in 1..Len(loads) : GeneratorReady(l)
    \/ \E p \in Slots : LoadSettles(p)
    \/ \E p \in Slots : ResolveReturns(p)
    \/ \E p \in Slots : ReloadReturns(p)

SpecServer == InitServer /\ [][NextServer]_vars

\* Reference searches in a workspace with a root configuration, with documents
\* being opened and closed and files being written while a search is in progress.
InitRefs ==
    /\ fsKind = Layout("uno", "none", "none")
    /\ opLimit = MaxRefOps
    /\ nOps = 0
    /\ InitCtx
    /\ InitCacheVars
    /\ InitNoScan
    /\ InitService

NextRefs ==
    \/ \E p \in Slots, doc \in Range(WorkspaceFiles) : References(p, doc)
    \/ \E p \in Slots : ReferencesContinues(p)
    \/ \E p \in Slots, matched \in BOOLEAN : ReferencesMatched(p, matched)
    \/ \E p \in Slots : ReferencesCollected(p)
    \/ \E p \in Slots : ReferencesNextFile(p)
    \/ \E p \in Slots : ReferencesFileRead(p)
    \/ \E p \in Slots : ReferencesFileContext(p)
    \/ \E p \in Slots : ReferencesFilePositions(p)
    \/ \E doc \in Range(WorkspaceFiles), text \in Contents : DidOpen(doc, text)
    \/ \E doc \in Range(WorkspaceFiles) : DidClose(doc)
    \/ \E f \in Range(WorkspaceFiles), text \in Contents : FileWritten(f, text)
    \/ \E s \in 1..Len(scans) : ScanSettles(s)
    \/ \E p \in Slots : ReaddirReturns(p)
    \/ \E p \in Slots : AfterWalk(p)
    \/ \E l \in 1..Len(loads) : LoaderReturns(l)
    \/ \E l \in 1..Len(loads) : GeneratorReady(l)
    \/ \E p \in Slots : LoadSettles(p)
    \/ \E p \in Slots : ResolveReturns(p)
    \/ \E p \in Slots : ReloadReturns(p)

SpecRefs == InitRefs /\ [][NextRefs]_vars

\* The Token Matcher on every text of up to MaxText lexemes, for a generator
\* without transformers.
InitMatch ==
    /\ fsKind = Layout("none", "none", "none")
    /\ opLimit = 0
    /\ nOps = 0
    /\ InitNoManager
    /\ InitCacheVars
    /\ InitService
    /\ \E code \in Texts(MaxText) :
          matcher = [code |-> code, transformers |-> << >>, positions |-> NoPositions]

NextMatch == Scan

SpecMatch == InitMatch /\ [][NextMatch]_vars

\* the texts scanned with transformers configured
HookTexts == {<< >>, <<"q", "a", "q">>, <<"@", "a", ";">>, <<"q", "S", "a", "E", "q">>}

\* The Token Matcher for generators with every transformer list of up to
\* MaxHooks entries.
InitHooks ==
    /\ fsKind = Layout("none", "none", "none")
    /\ opLimit = 0
    /\ nOps = 0
    /\ InitNoManager
    /\ InitCacheVars
    /\ InitService
    /\ \E code \in HookTexts, transformers \in TransformerLists(MaxHooks) :
          matcher = [code |-> code, transformers |-> transformers,
                     positions |-> NoPositions]

NextHooks == Scan

SpecHooks == InitHooks /\ [][NextHooks]_vars

\* The single-generator service: resolveConfig calls, overlapping or not, over
\* the layouts.
InitResolve ==
    /\ fsKind \in Layouts
    /\ opLimit = 0
    /\ nOps = 0
    /\ InitNoManager
    /\ InitCacheVars
    /\ InitNoScan
    /\ InitService

NextResolve ==
    \/ \E rootDir \in ServiceRoots : ResolveConfig(rootDir)
    \/ \E i \in 1..Len(service.calls) : LoadConfigReturns(i)
    \/ \E i \in 1..Len(service.calls) : SetConfigResolves(i)
    \/ \E i \in 1..Len(service.calls) : ResolveConfigReturns(i)

SpecResolve == InitResolve /\ [][NextResolve]_vars

\* A configuration file of the workspace is rewritten on disk: what the editor's
\* onDidChangeWatchedFiles notification tells the server of.  The next Config
\* Loader call of the directory reads the new file; nothing of the manager's
\* state changes until reload() is called.
ConfigFileChanged(dir, kind) ==
    /\ fsKind[dir] \notin {"none", "denied", kind}
    /\ fsKind' = [fsKind EXCEPT ![dir] = kind]
    /\ UNCHANGED <<opLimit, autocompleteMatchType, contextsMap, fileContextCache,
                   configExistsCache, loadingContexts, configSources, loads, procs,
                   nOps, writerGen, completed, ctxHist, last, cacheVars, docText, disk,
                   matcher, service>>

\* The ContextManager of a workspace whose root configuration file is malformed
\* when the server starts and is repaired once, into a framework configuration
\* without UnoCSS or into a UnoCSS configuration; one call at a time.
InitEdit ==
    /\ fsKind = Layout("bad", "none", "none")
    /\ opLimit = MaxOps
    /\ nOps = 0
    /\ InitCtx
    /\ InitCacheVars
    /\ InitNoScan
    /\ InitService

NextEdit ==
    \/ \E kind \in {"fw", "uno"} : fsKind[Cwd] = "bad" /\ ConfigFileChanged(Cwd, kind)
    \/ \E p \in Slots, f \in Paths : Quiet /\ StartResolve(p, f)
    \/ \E p \in Slots : Quiet /\ StartReload(p)
    \/ \E p \in Slots : ReaddirReturns(p)
    \/ \E p \in Slots : AfterWalk(p)
    \/ \E l \in 1..Len(loads) : LoaderReturns(l)
    \/ \E l \in 1..Len(loads) : GeneratorReady(l)
    \/ \E p \in Slots : LoadSettles(p)
    \/ \E p \in Slots : ResolveReturns(p)
    \/ \E p \in Slots : ReloadReturns(p)

SpecEdit == InitEdit /\ [][NextEdit]_vars

\* Calls for one file of the workspace root and reload() calls in any
\* interleaving, over a workspace without configuration (the root load yields the
\* default Context), one whose root configuration makes the Config Loader throw,
\* and one whose root holds a framework configuration without UnoCSS (a load
\* with allowDefault = false yields absent).
InitAwait ==
    /\ fsKind \in {Layout("none", "none", "none"), Layout("bad", "none", "none"),
                   Layout("fw", "none", "none")}
    /\ opLimit = MaxOps
    /\ nOps = 0
    /\ InitCtx
    /\ InitCacheVars
    /\ InitNoScan
    /\ InitService

NextAwait ==
    \/ \E p \in Slots : StartResolve(p, RootFile)
    \/ \E p \in Slots : StartReload(p)
    \/ \E p \in Slots : ReaddirReturns(p)
    \/ \E p \in Slots : AfterWalk(p)
    \/ \E l \in 1..Len(loads) : LoaderReturns(l)
    \/ \E l \in 1..Len(loads) : GeneratorReady(l)
    \/ \E p \in Slots : LoadSettles(p)
    \/ \E p \in Slots : ResolveReturns(p)
    \/ \E p \in Slots : ReloadReturns(p)

SpecAwait == InitAwait /\ [][NextAwait]_vars

\* The same calls over the workspace without configuration and the one whose
\* root configuration fails, with every promise loadContext awaits settling (the
\* Config Loader returns or throws, the generator is configured) and every caller
\* whose awaited load promise has settled being resumed.
InitAwaitFair ==
    /\ InitAwait
    /\ fsKind \in {Layout("none", "none", "none"), Layout("bad", "none", "none")}

SpecAwaitFair ==
    /\ InitAwaitFair /\ [][NextAwait]_vars
    /\ WF_vars(\E l \in 1..Len(loads) : LoaderReturns(l))
    /\ WF_vars(\E l \in 1..Len(loads) : GeneratorReady(l))
    /\ WF_vars(\E p \in Slots : LoadSettles(p))

\* ------------------------------------------------------------------ claims
\* the directories from a file's directory up to and including the workspace root
AncestorChain(f) == {d \in Dirs : (d = Cwd \/ IsSubdir(Cwd, d)) /\ IsSubdir(d, f)}

\* the directories at or above a file's directory whose configuration makes the
\* Config Loader throw
FailingAncestors(f) == {d \in AncestorChain(f) : fsKind[d] = "bad"}

\* those of them that hold a configuration file
ConfigAncestors(f) == {d \in AncestorChain(f) : fsKind[d] \in {"uno", "fw", "bad"}}

\* the nearest of them
NearestConfigDir(f) ==
    CHOOSE d \in ConfigAncestors(f) : \A e \in ConfigAncestors(f) : Len(e) <= Len(d)

\* C1: every resolveClosestContext call for a file inside the workspace (not an
\* excluded path, no ancestor whose configuration the Config Loader fails on)
\* with a configuration file somewhere on its ancestor chain returns the Context
\* whose configDir is the nearest ancestor holding one.
C1_NearestConfigWins ==
    (last.op = "resolve" /\ ~ExcludeFileRE(last.file)
        /\ ConfigAncestors(last.file) # {} /\ FailingAncestors(last.file) = {})
        => (last.ret >= 1 /\ ConfigDir(last.ret) = NearestConfigDir(last.file))

\* C2: a resolveClosestContext call for a path that matches no exclusion pattern
\* never returns 'no context'.
C2_NeverNoContext ==
    (last.op = "resolve" /\ ~ExcludeFileRE(last.file)) => last.ret # Undefined

\* the loadContextInDirectory(d) calls that have not yet handed their outcome to
\* their caller's continuation
Callers(d) == {p \in Slots : procs[p].pc \in {"awaitLoad", "loaded"} /\ procs[p].ldir = d}

\* the Config Loader invocations for d, over the whole behaviour
LoadsOf(d) == {l \in 1..Len(loads) : loads[l].dir = d}

\* C3: while no reload() has run since d was first loaded, the
\* loadContextInDirectory(d) calls outstanding at once rest on one Config Loader
\* invocation for d, and every one of them receives that invocation's outcome.
C3_OneLoadSharedByCallers ==
    \A d \in Dirs : (~tainted[d] /\ Callers(d) # {}) =>
        /\ Cardinality(LoadsOf(d)) = 1
        /\ \A p \in Callers(d), l \in LoadsOf(d) :
              IF procs[p].pc = "awaitLoad" THEN procs[p].load = l
              ELSE Settled(l) /\ procs[p].val = LoadResult(l)

\* two calls for a directory never loaded before wait for the same pending load,
\* one of them attached to the load the other started
C3_Witness ==
    \E p, q \in Slots :
        /\ p # q
        /\ procs[p].pc = "awaitLoad" /\ procs[q].pc = "awaitLoad"
        /\ procs[p].ldir = AppDir /\ procs[q].ldir = AppDir
        /\ ~tainted[AppDir]
        /\ procs[p].owner /\ ~procs[q].owner
        /\ procs[p].load = procs[q].load
        /\ ~Settled(procs[p].load)

\* C4: in every reachable state at most one Config Loader invocation is
\* outstanding for any directory.
C4_OneOutstandingLoader ==
    \A d \in Dirs : Cardinality({l \in LoadsOf(d) : loads[l].pc = "config"}) <= 1

\* C5: what the Context Store holds was installed by a load started after the
\* latest reload() began: a load started before it is discarded.
C5_StaleLoadDiscarded ==
    \A d \in Dirs : contextsMap[d] # NoEntry => loads[installer[d]].gen = generation

\* C6: what the Resolution Cache holds was written by a call started after the
\* latest reload() began, and refers to no Context created before that reload.
C6_NoStaleResolution ==
    \A f \in Files : fileContextCache[f] # NoEntry =>
        /\ writerGen[f] = generation
        /\ fileContextCache[f] >= 1 => loads[fileContextCache[f]].made = generation

\* C7: between two consecutive reload() calls at most one Context is created for
\* any configDir.
C7_OneContextPerDir ==
    \A d \in Dirs : Cardinality(created[d]) <= 1

\* C8: a getMatchedPositionsFromDoc call without force that finds an entry for its
\* key does not invoke the Token Matcher and returns that entry, whatever content
\* it was given.
C8_HitReturnsCached ==
    (lastGet.by # "none" /\ ~lastGet.force /\ lastGet.pre # 0) =>
        (~lastGet.scanned /\ lastGet.ret = lastGet.pre)

\* the second call was given content other than the content the entry was
\* computed from
C8_Witness ==
    /\ lastGet.by # "none" /\ ~lastGet.force /\ lastGet.pre # 0
    /\ scans[lastGet.pre].code # lastGet.code
    /\ lastGet.ret = lastGet.pre

\* C9: the first getMatchedPositionsFromDoc call for a key after
\* clearDocumentCache(id) scans the content it is given and returns that scan.
C9_EvictionIsObserved ==
    (lastGet.by # "none" /\ lastGet.wasEvicted) =>
        (lastGet.scanned /\ scans[lastGet.ret].code = lastGet.code)

\* a strict-mode entry of other content existed before the eviction
C9_Witness ==
    /\ lastGet.by # "none" /\ lastGet.wasEvicted /\ ~lastGet.force
    /\ lastGet.key[1] = "strict"
    /\ \E s \in 1..Len(scans) :
          /\ s # lastGet.ret
          /\ GetCacheKey(scans[s].id, scans[s].strict) = lastGet.key
          /\ scans[s].code # lastGet.code

\* C10: the positions a hover or document-color request is answered from were
\* computed from the text that request read.
C10_NoStaleAnswer ==
    lastGet.by \in {"hover", "color"} => scans[lastGet.ret].code = lastGet.code

\* C11: once every workspace reload (clearAllCache, then reload()) has completed,
\* each match-cache entry was computed with the generator of a Context created
\* after the latest reload began, whatever requests were in progress meanwhile.
C11_NoEntryOfOldGenerator ==
    (\A p \in Slots : procs[p].kind # "reload") =>
        \A k \in Keys : cache[k] # 0 => loads[scans[cache[k]].uno].made = generation

\* C12: once a force call has run for a key, the entry of that key is never the
\* result of a scan started before that call, however the calls for the key and
\* the completions of their scans interleave.
C12_ForceNotUndone ==
    \A k \in Keys : (forcedAt[k] >= 0 /\ cache[k] # 0) => cache[k] > forcedAt[k]

\* a scan of the key started before the force call has completed while the scan
\* of the force call is still running and is the entry
C12_Witness ==
    \E k \in Keys :
        /\ forcedAt[k] >= 1
        /\ cache[k] = forcedAt[k] + 1
        /\ scans[cache[k]].status = "pending"
        /\ \E s \in 1..forcedAt[k] :
              /\ GetCacheKey(scans[s].id, scans[s].strict) = k
              /\ scans[s].status = "done"

\* C13: every getMatchedPositionsFromDoc call with force = true starts a scan of
\* the content it is given, whether or not the key had an entry, returns that
\* scan, and leaves it as the entry of the key.
C13_ForceRescans ==
    [][(lastGet' # lastGet /\ lastGet'.force) =>
          /\ lastGet'.scanned
          /\ Len(scans') = Len(scans) + 1
          /\ lastGet'.ret = Len(scans')
          /\ scans'[Len(scans')].code = lastGet'.code
          /\ GetCacheKey(scans'[Len(scans')].id, scans'[Len(scans')].strict) = lastGet'.key
          /\ cache'[lastGet'.key] = Len(scans')]_vars

\* a force call has replaced an entry computed from other content
C13_Witness ==
    /\ lastGet.by # "none" /\ lastGet.force /\ lastGet.pre # 0
    /\ scans[lastGet.pre].code # lastGet.code
    /\ cache[lastGet.key] = lastGet.ret
    /\ lastGet.ret # lastGet.pre

\* C14: a clearDocumentCache(id) call leaves no entry under the default-mode and
\* the strict-mode key of id, and every entry of every other document as it was.
C14_ClearDocumentFrame ==
    [][\A id \in Files : (lastGet' = lastGet /\ scans' = scans /\ CallClearDocument(id)) =>
          \A k \in Keys : cache'[k] = IF k[2] = id THEN 0 ELSE cache[k]]_vars

\* a document's strict-mode entry was cleared while another document keeps its
\* entry
C14_Witness ==
    \E id \in Files, other \in Keys :
        /\ other[2] # id /\ cache[other] # 0
        /\ evicted[GetCacheKey(id, TRUE)] /\ evicted[GetCacheKey(id, FALSE)]
        /\ cache[GetCacheKey(id, TRUE)] = 0 /\ cache[GetCacheKey(id, FALSE)] = 0
        /\ \E s \in 1..Len(scans) : scans[s].id = id /\ scans[s].strict

\* C15: a load with allowDefault = false of a directory in which the Config
\* Loader finds nothing creates no Context, only the absent marker; and from
\* then until the next reload() the directory keeps the marker, the loader is
\* not invoked for it again and every loadContextInDirectory call for it
\* yields absent.
C15_AbsentIsFinal ==
    /\ [](\A l \in 1..Len(loads) :
            (~loads[l].allowDefault /\ fsKind[loads[l].dir] \notin {"uno", "bad"}) =>
                /\ loads[l].result \in {NoEntry, Null}
                /\ loads[l].pc # "gen"
                /\ l \notin created[loads[l].dir])
    /\ [][generation' = generation =>
            \A d \in Dirs : contextsMap[d] = Null =>
                /\ contextsMap'[d] = Null
                /\ LoadsOf(d)' = LoadsOf(d)
                /\ \A p \in Slots :
                      (procs'[p].pc = "loaded" /\ procs'[p].ldir = d) =>
                          procs'[p].val = Null]_vars

\* a later call for the directory found the marker and started no load
C15_Witness ==
    \E p \in Slots :
        /\ procs[p].pc = "loaded" /\ procs[p].ldir = AppDir
        /\ procs[p].load = 0 /\ procs[p].val = Null
        /\ fsKind[AppDir] = "fw"
        /\ Cardinality(LoadsOf(AppDir)) = 1

\* a path with a directory segment node_modules, dist, .temp or .cache
HasExcludedSegment(f) ==
    \E i \in 1..(Len(f) - 1) : f[i] \in {"node_modules", "dist", ".temp", ".cache"}

\* C16: a resolveClosestContext call for a path with an excluded segment returns
\* 'no context' at once: it lists no directory, invokes no Config Loader, and
\* the Context Store, the Resolution Cache, the Directory Probe cache and the
\* In-flight Load table are as they were.
C16_ExcludedPathUntouched ==
    [][\A p \in Slots, f \in Files : (HasExcludedSegment(f) /\ StartResolve(p, f)) =>
          /\ last'.op = "resolve" /\ last'.file = f /\ last'.ret = Undefined
          /\ UNCHANGED <<contextsMap, fileContextCache, configExistsCache,
                         loadingContexts, loads>>
          /\ \A q \in Slots : procs'[q].file # f]_vars

\* an excluded path has been resolved; the root Context is loaded and the walk
\* for another file is listing a directory
C16_Witness ==
    /\ last.op = "resolve" /\ last.file = DepsFile /\ last.ret = Undefined
    /\ contextsMap[Cwd] >= 1
    /\ fileContextCache[DepsFile] = NoEntry
    /\ configExistsCache[DepsDir] = NoProbe
    /\ \E q \in Slots : procs[q].pc = "readdir"

\* C17: when a reload() that ran with no other operation in progress or started
\* meanwhile completes, the Resolution Cache, the Directory Probe cache and the
\* In-flight Load table are empty and the Context Store holds one entry, a
\* Context for the workspace root built by that reload from the root's
\* configuration, or from the default configuration when the root has none.
C17_ReloadPostcondition ==
    [][(last' # last /\ last'.op = "reload" /\ last'.alone /\ last'.ret = Void) =>
          /\ \A f \in Files : fileContextCache'[f] = NoEntry
          /\ \A d \in Dirs : configExistsCache'[d] = NoProbe
          /\ \A d \in Dirs : loadingContexts'[d] = 0
          /\ \A d \in Dirs \ {Cwd} : contextsMap'[d] = NoEntry
          /\ contextsMap'[Cwd] >= 1
          /\ ConfigDir(contextsMap'[Cwd]) = Cwd
          /\ loads'[contextsMap'[Cwd]].gen = generation'
          /\ configSources' = IF fsKind[Cwd] = "uno" THEN <<Cwd>> ELSE << >>]_vars

\* a reload() after a resolve had filled the caches has completed on its own,
\* in a workspace whose root has no configuration
C17_Witness ==
    /\ last.op = "reload" /\ last.alone /\ last.ret = Void
    /\ generation = 1
    /\ fsKind[Cwd] = "none"
    /\ Len(loads) >= 3
    /\ Quiet
    /\ contextsMap[Cwd] = Len(loads)

\* the Contexts the Context Store holds
Loaded == {l \in 1..Len(loads) : \E d \in Dirs : contextsMap[d] = l}

\* C18: setAutocompleteMatchType(mode) with the stored mode changes nothing;
\* with another mode it stores the mode and gives every Context of the Context
\* Store a new autocomplete engine of that mode, and nothing else changes: the
\* store's keys and Contexts, each Context's generator, configDir and
\* configSources, the Resolution Cache, the Probe cache and the In-flight table.
C18_MatchTypeFrame ==
    [][\A mode \in MatchTypes : SetAutocompleteMatchType(mode) =>
          /\ UNCHANGED <<contextsMap, fileContextCache, configExistsCache,
                         loadingContexts, configSources>>
          /\ Len(loads') = Len(loads)
          /\ IF mode = autocompleteMatchType
             THEN UNCHANGED <<autocompleteMatchType, loads>>
             ELSE /\ autocompleteMatchType' = mode
                  /\ \A l \in 1..Len(loads) :
                        /\ [loads'[l] EXCEPT !.autocomplete = NoAutocomplete]
                              = [loads[l] EXCEPT !.autocomplete = NoAutocomplete]
                        /\ loads'[l].autocomplete =
                              IF l \in Loaded
                              THEN [matchType |-> mode, by |-> "setAutocompleteMatchType"]
                              ELSE loads[l].autocomplete]_vars

\* the root Context, already in the Resolution Cache, has the engine that a
\* change of the mode gave it
C18_Witness ==
    /\ autocompleteMatchType = "fuzzy"
    /\ contextsMap[Cwd] >= 1
    /\ loads[contextsMap[Cwd]].autocomplete =
          [matchType |-> "fuzzy", by |-> "setAutocompleteMatchType"]
    /\ fileContextCache[RootFile] = contextsMap[Cwd]
    /\ configExistsCache[Cwd] # NoProbe

\* the configDirs of the Contexts the Context Store holds
KnownConfigDirs == {d \in Dirs : contextsMap[d] >= 1}

\* C19: isTarget(path) is true when no Context is loaded yet or when path is, or
\* lies under, the configDir of a loaded Context, and false otherwise.
C19_IsTargetResult ==
    [][\A id \in Files : CallIsTarget(id) =>
          ((last'.ret = 1) <=>
              \/ KnownConfigDirs = {}
              \/ \E d \in KnownConfigDirs : id = d \/ IsSubdir(d, id))]_vars

\* C20: no two Contexts of the Context Store have the same generator, and the
\* generator of a Context generates the shortcut defined by the configuration
\* of its own directory and by no other: a nested directory's shortcut yields
\* output through that directory's Context and none through the root's.
C20_GeneratorPerContext ==
    \A d \in Dirs : contextsMap[d] >= 1 =>
        /\ \A e \in Dirs \ {d} : contextsMap[e] >= 1 =>
              loads[contextsMap[d]].generator # loads[contextsMap[e]].generator
        /\ \A shortcut \in Dirs :
              Generates(loads[contextsMap[d]].generator, shortcut)
                  <=> (shortcut = d /\ fsKind[d] = "uno")

\* the root and the nested directory both have a Context; the nested
\* directory's shortcut generates through its own Context only
C20_Witness ==
    /\ contextsMap[Cwd] >= 1 /\ contextsMap[AppDir] >= 1
    /\ Generates(loads[contextsMap[AppDir]].generator, AppDir)
    /\ ~Generates(loads[contextsMap[Cwd]].generator, AppDir)
    /\ Generates(loads[contextsMap[Cwd]].generator, Cwd)

\* C21: a resolveClosestContext call for a file under a directory whose
\* configuration the Config Loader fails on returns the Context of an ancestor
\* or of the workspace root, and the failing directory never gets a Context.
C21_LoaderFailureFallsBack ==
    /\ \A d \in Dirs : fsKind[d] = "bad" => contextsMap[d] < 1
    /\ (last.op = "resolve" /\ ~ExcludeFileRE(last.file)
            /\ FailingAncestors(last.file) # {})
        => (last.ret >= 1 /\ fsKind[ConfigDir(last.ret)] # "bad")

\* the result of a completed walk for file f: the nearest ancestor inside the
\* workspace that holds a configuration file, or false
NearestOrFalse(f) ==
    IF ConfigAncestors(f) = {} THEN FalseProbe ELSE NearestConfigDir(f)

\* C22: a walk that met a directory whose listing failed went on to the parent:
\* it ends with the nearest ancestor that holds a configuration file.
C22_ListingFailureSkipped ==
    \A p \in Slots :
        (procs[p].pc = "walked" /\ \E d \in AncestorChain(procs[p].file) : fsKind[d] = "denied")
            => procs[p].found = NearestOrFalse(procs[p].file)

\* the walk from the unreadable directory has found the root's configuration
C22_Witness ==
    \E p \in Slots :
        /\ procs[p].pc = "walked" /\ procs[p].file = SrcFile
        /\ fsKind[SrcDir] = "denied"
        /\ procs[p].found = Cwd
        /\ configExistsCache[SrcDir] = Cwd

\* C23: a resolveClosestContext call issued after an earlier call for the same
\* file has completed, with no reload() since, returns what the earlier call
\* returned, without listing a directory and without invoking the Config Loader.
C23_SecondCallFromCache ==
    (last.op = "resolve" /\ last.prev # NoEntry)
        => (last.ret = last.prev /\ ~last.io)

\* token position i lies between an opening lexeme and the first closing lexeme
\* after it
Between(code, open, close, i) ==
    \E st \in 1..(i - 1), en \in (i + 1)..Len(code) :
        /\ code[st] = open /\ code[en] = close
        /\ \A k \in (st + 1)..(en - 1) : code[k] # close

\* token position i lies inside a skip-start/skip-end region
InSkipRegion(code, i) == Between(code, "S", "E", i)

\* token position i lies inside a quoted string (an odd number of quotes before
\* it and a quote after it) or inside a directive statement
InIncludedRegion(code, i) ==
    \/ /\ Cardinality({k \in 1..(i - 1) : code[k] = "q"}) % 2 = 1
       /\ \E k \in (i + 1)..Len(code) : code[k] = "q"
    \/ Between(code, "@", ";", i)

Reported(i) ==
    \E k \in 1..Len(matcher.positions.value) : matcher.positions.value[k][1] = i - 1

C25_MalformedHookSkipped ==
    (matcher.positions.status # "none"
            /\ \E k \in 1..Len(matcher.transformers) : matcher.transformers[k] = "malformed")
        => /\ matcher.positions.status = "resolved"
           /\ matcher.positions.value =
                  GetMatchedPositions(matcher.code, DefaultIdeMatchInclude,
                                      DefaultIdeMatchExclude)

\* a scan with a malformed entry first in the list has reported the token
C25_Witness ==
    /\ matcher.code = <<"q", "a", "q">>
    /\ Len(matcher.transformers) >= 2
    /\ matcher.transformers[1] = "malformed"
    /\ matcher.positions.status = "resolved"
    /\ matcher.positions.value = << <<1, 2, "a">> >>

\* C26: when the resolveConfig call that completed last was for a directory
\* without configuration, the shared generator generates nothing for the
\* shortcut of any directory's configuration.
C26_BackOnDefaults ==
    (service.last # 0 /\ LoadedConfig(service.calls[service.last].dir) = {})
        => \A shortcut \in Dirs : shortcut \notin service.config

\* the workspace root and the directories under it
InWorkspace(d) == d = Cwd \/ IsSubdir(Cwd, d)

\* C27: a directory being listed by the upward walk is the workspace root or lies
\* under it, and a walk started outside the workspace lists nothing and ends
\* with no configuration directory.
C27_WalkStaysInWorkspace ==
    \A p \in Slots :
        /\ procs[p].pc = "readdir" => InWorkspace(procs[p].dir)
        /\ (procs[p].kind \notin {"idle", "reload"} /\ ~InWorkspace(Dirname(procs[p].file)))
              => /\ procs[p].pc # "readdir"
                 /\ procs[p].pc = "walked" => procs[p].found = FalseProbe

\* the walk for the file outside the workspace, whose directory holds a
\* configuration, has ended without one
C27_Witness ==
    \E p \in Slots :
        /\ procs[p].file = OutFile /\ fsKind[OutDir] = "uno"
        /\ procs[p].pc = "walked" /\ procs[p].found = FalseProbe
        /\ ~procs[p].io
        /\ configExistsCache[OutDir] = NoProbe

\* C28: a walk that awaits a directory listing ends, and each listing that
\* returns without ending the walk leaves it at the parent directory.
C28_WalkTerminates ==
    /\ \A p \in Slots : (procs[p].pc = "readdir") ~> (procs[p].pc = "walked")
    /\ [][\A p \in Slots :
            (procs[p].pc = "readdir" /\ procs'[p].pc = "readdir" /\ procs'[p] # procs[p])
                => procs'[p].dir = Dirname(procs[p].dir)]_vars

\* the walk from the deepest directory of a workspace without configuration has
\* listed three directories and left the workspace
C28_Witness ==
    \E p \in Slots :
        /\ procs[p].pc = "walked" /\ procs[p].file = SrcFile
        /\ procs[p].found = FalseProbe
        /\ \A d \in {SrcDir, AppDir, Cwd} : configExistsCache[d] = FalseProbe

\* C29: the step that ends a walk leaves every directory the walk searched with
\* a Directory Probe entry equal to the walk's result; a walk that meets a
\* memoized directory ends there with the memoized result; and a listing is
\* started only for a directory without an entry.  (The steps of a walk change
\* the one call that makes it.)
C29_WalkMemoized ==
    [][\A p \in Slots :
        (\A q \in Slots \ {p} : procs'[q] = procs[q]) =>
            /\ (procs[p].pc = "readdir" /\ procs'[p].pc = "walked")
                  => /\ \A d \in Range(procs[p].searched) :
                            configExistsCache'[d] = procs'[p].found
                     /\ configExistsCache[Dirname(procs[p].dir)] # NoProbe
                            => procs'[p].found \in {procs[p].dir,
                                                    configExistsCache[Dirname(procs[p].dir)]}
            /\ (procs'[p].pc = "readdir"
                    /\ (procs[p].pc # "readdir" \/ procs'[p].dir # procs[p].dir))
                  => configExistsCache[procs'[p].dir] = NoProbe]_vars

\* after a call for a file one level up has completed, the walk from the deepest
\* directory has listed that directory only and ended at its memoized parent
C29_Witness ==
    \E p \in Slots :
        /\ procs[p].pc = "walked" /\ procs[p].file = SrcFile /\ procs[p].io
        /\ completed[AppFile] # NoEntry /\ completed[SrcFile] = NoEntry
        /\ fsKind[SrcDir] = "none"
        /\ configExistsCache[SrcDir] = procs[p].found
        /\ configExistsCache[AppDir] = procs[p].found

\* what a Directory Probe entry for d has to be
ProbeTruth(d) == NearestOrFalse(Append(d, "i.html"))

\* C30: every Directory Probe entry for a directory is the nearest directory
\* among it and its ancestors inside the workspace that holds a configuration
\* file, and is false exactly when there is none.
C30_ProbeEntriesTrue ==
    \A d \in Dirs : configExistsCache[d] # NoProbe => configExistsCache[d] = ProbeTruth(d)

\* a walk from below a configured directory has memoized it for both
C30_Witness ==
    /\ fsKind[AppDir] \in {"uno", "fw", "bad"}
    /\ configExistsCache[SrcDir] = AppDir
    /\ configExistsCache[AppDir] = AppDir
    /\ configExistsCache[Cwd] = NoProbe

\* C31: a loadContextInDirectory(dir, allowDefault = true) call whose Config
\* Loader does not throw returns a Context, never the absent result, whatever the
\* Context Store or the In-flight Load table holds for dir when it is called
C31_AllowDefaultYieldsContext ==
    \A p \in Slots :
        (procs[p].pc = "loaded" /\ procs[p].allowDefault /\ procs[p].val # Error) =>
            procs[p].val >= 1

\* C32: when the Config Loader throws inside a load of dir, every caller awaiting
\* that load receives the failure; once the call that started the load has
\* resumed, neither the Context Store nor the In-flight Load table holds an entry
\* for dir, so that the next loadContextInDirectory(dir) starts a new load
C32_FailureReachesCallersAndIsNotCached ==
    [][\A p \in Slots :
         (/\ procs[p].pc = "awaitLoad" /\ procs'[p].pc = "loaded"
          /\ \A q \in Slots \ {p} : procs'[q] = procs[q]
          /\ loads[procs[p].load].result = Error) =>
            /\ procs'[p].val = Error
            /\ procs[p].owner =>
                  /\ contextsMap'[procs[p].ldir] = NoEntry
                  /\ loadingContexts'[procs[p].ldir] = 0
                  /\ LoadContextInDirectory(contextsMap', loadingContexts',
                                            procs[p].ldir).how = "start"]_vars

\* a caller attached to a load started by another call has received the load's
\* failure, and the call that started the load has resumed
C32_Witness ==
    \E p, q \in Slots :
        /\ p # q /\ procs[p].load = procs[q].load
        /\ procs[p].pc = "loaded" /\ procs[p].owner /\ procs[p].val = Error
        /\ procs[q].pc = "loaded" /\ ~procs[q].owner /\ procs[q].val = Error

\* C33: no In-flight Load entry outlives its load: whenever no load is
\* outstanding (every load has settled and every call awaiting one has resumed),
\* the In-flight Load table is empty
C33_NoInflightEntryLeaks ==
    ((\A l \in 1..Len(loads) : Settled(l)) /\ (\A p \in Slots : procs[p].pc # "awaitLoad")) =>
        \A d \in Dirs : loadingContexts[d] = 0

\* no load is outstanding after a reload() cleared the table while a load was
\* pending: the load finished after the reload(), and the reload's own load too
C33_Witness ==
    /\ \A l \in 1..Len(loads) : Settled(l)
    /\ \A p \in Slots : procs[p].pc # "awaitLoad"
    /\ \E l, k \in 1..Len(loads) :
          /\ loads[l].gen < generation /\ loads[l].made = generation
          /\ loads[k].gen = generation

\* C34: every call awaiting an in-flight load is eventually resumed with the
\* load's outcome, also when reload() clears the In-flight Load table before the
\* load finishes, provided the Config Loader returns: whenever calls await a
\* load, a state follows in which all of them have been resumed (a call leaves
\* its await only by receiving the outcome of the load it awaits)
C34_CallersEventuallyResumed ==
    (\E p \in Slots : procs[p].pc = "awaitLoad")
        ~> (\A p \in Slots : procs[p].pc # "awaitLoad")

\* a caller attached to a load another call started has been resumed with the
\* Context of the load, which finished after a reload() cleared the table
C34_Witness ==
    \E p \in Slots :
        /\ procs[p].pc = "loaded" /\ ~procs[p].owner /\ procs[p].load >= 1
        /\ loads[procs[p].load].gen < generation
        /\ loads[procs[p].load].made = generation
        /\ procs[p].val = procs[p].load

\* C35: the autocomplete engine of every Context in the Context Store was built
\* with the match type stored now, also when the Context's load was in flight
\* while setAutocompleteMatchType was called
C35_EnginesUseStoredMatchType ==
    \A d \in Dirs :
        contextsMap[d] >= 1 =>
            loads[contextsMap[d]].autocomplete.matchType = autocompleteMatchType

\* the constructor's load, in flight since construction, has installed its Context
\* after setAutocompleteMatchType changed the type: the engine it built has it
C35_Witness ==
    /\ contextsMap[Cwd] = 1
    /\ autocompleteMatchType # "prefix"
    /\ loads[1].autocomplete = CreateAutocomplete(autocompleteMatchType, "loadContext")

\* C36: when reload() calls overlap, then once all of them have completed the
\* Context of the workspace root in the Context Store is the one built by the
\* load of the latest reload()
C36_LaterReloadWins ==
    (/\ generation >= 1
     /\ \A p \in Slots : procs[p].kind # "reload"
     /\ \A l \in 1..Len(loads) : Settled(l)
     /\ contextsMap[Cwd] >= 1) =>
        loads[contextsMap[Cwd]].gen = generation

\* C37: a getMatchedPositionsFromDoc call without force that finds, for its key,
\* the entry of a scan still in progress does not invoke the Token Matcher again
\* and returns the promise of that scan
C37_PendingScanShared ==
    (lastGet.by # "none" /\ ~lastGet.force /\ lastGet.preStatus = "pending") =>
        (~lastGet.scanned /\ lastGet.ret = lastGet.pre)

\* two calls for one key, the second made while the scan of the first was in
\* progress: one scan exists and the second call returned it
C37_Witness ==
    /\ lastGet.by # "none" /\ ~lastGet.force /\ lastGet.preStatus = "pending"
    /\ Len(scans) = 1 /\ lastGet.ret = 1 /\ nOps = 2

\* C38: a failed scan stays in the match cache: the rejection removes no entry,
\* and a later call without force for the key returns the same failed result
\* without invoking the Token Matcher
C38_FailedScanStaysCached ==
    /\ [](  (lastGet.by # "none" /\ ~lastGet.force /\ lastGet.preStatus = "failed") =>
               (/\ ~lastGet.scanned /\ lastGet.ret = lastGet.pre
                /\ scans[lastGet.ret].status = "failed"))
    /\ [][\A s \in 1..Len(scans) :
             (scans[s].status = "pending" /\ scans'[s].status = "failed") =>
                 cache' = cache]_vars

\* a call made after the scan of its key failed returned the failed scan
C38_Witness ==
    /\ lastGet.by # "none" /\ ~lastGet.force /\ lastGet.preStatus = "failed"
    /\ lastGet.ret = lastGet.pre /\ scans[lastGet.ret].status = "failed"

\* C39: in a reference search, a file that is not open in the editor when the
\* search examines it is scanned with force = true: the Token Matcher is invoked
\* on the content the search has just read for it and no earlier cache entry is
\* returned; a file that is open is asked of the cache without force, so that an
\* entry present for it is returned
C39_ClosedFilesForcedOpenFilesCached ==
    [][\A p \in Slots :
         (/\ procs[p].kind = "references" /\ procs[p].pc # "awaitFileScan"
          /\ procs'[p].kind = "references" /\ procs'[p].pc = "awaitFileScan"
          /\ \A q \in Slots \ {p} : procs'[q] = procs[q]) =>
            LET pr == procs'[p] IN
            /\ lastGet'.by = "references" /\ lastGet'.key = GetCacheKey(pr.file, StrictAnnotationMatch)
            /\ lastGet'.force = ~pr.openDoc
            /\ pr.scan = lastGet'.ret
            /\ ~pr.openDoc =>
                  /\ lastGet'.scanned /\ pr.scan = Len(scans) + 1
                  /\ scans'[pr.scan].code = pr.content
            /\ (pr.openDoc /\ cache[lastGet'.key] # 0) =>
                  (~lastGet'.scanned /\ pr.scan = cache[lastGet'.key])]_vars

\* a search scans a file that is not open although the cache holds an entry for
\* it from an earlier search: a new scan was started and is the one awaited
C39_Witness ==
    \E p \in Slots :
        /\ procs[p].kind = "references" /\ procs[p].pc = "awaitFileScan"
        /\ ~procs[p].openDoc /\ procs[p].file \notin DOMAIN docText
        /\ lastGet.by = "references" /\ lastGet.force /\ lastGet.pre # 0
        /\ lastGet.ret = procs[p].scan /\ lastGet.ret # lastGet.pre

=============================================================================

